---- MODULE Spec2Model ----
(***************************************************************************)
(* human_match: the name matching engine (NameMatcher.match_names) and its *)
(* composite scorer (NameMatcher._calculate_composite_score).              *)
(*                                                                         *)
(* Strings are sequences of one-character strings.  Scores are exact      *)
(* rationals <<n, d>> in lowest terms with d > 0, so that thresholds,      *)
(* weights and multipliers of the source keep their exact decimal values. *)
(***************************************************************************)
EXTENDS Integers, Sequences, FiniteSets, TLC

VARIABLES pc, name1, name2, language1, language2, components1, components2,
          scores, confidence, method, answers, cleaned_name1, cache, pending,
          thread, builds, data_dir

vars == <<pc, name1, name2, language1, language2, components1, components2,
          scores, confidence, method, answers, cleaned_name1, cache, pending,
          thread, builds, data_dir>>

(***************************************************************************)
(* Exact rational arithmetic                                               *)
(***************************************************************************)
Abs(n) == IF n < 0 THEN -n ELSE n

RECURSIVE Gcd(_, _)
Gcd(a, b) == IF b = 0 THEN a ELSE Gcd(b, a % b)

\* The rational n/d (d > 0) in lowest terms.
Q(n, d) ==
    LET g == Gcd(Abs(n), d) IN <<n \div g, d \div g>>

Zero == <<0, 1>>
One == <<1, 1>>

\* k hundredths, k thousandths.
H(k) == Q(k, 100)
T(k) == Q(k, 1000)

\* x * y, cancelling across before multiplying.
QMul(x, y) ==
    IF x[1] = 0 \/ y[1] = 0 THEN Zero
    ELSE LET g1 == Gcd(Abs(x[1]), y[2])
             g2 == Gcd(Abs(y[1]), x[2])
         IN <<(x[1] \div g1) * (y[1] \div g2), (x[2] \div g2) * (y[2] \div g1)>>

QAdd(x, y) ==
    LET g == Gcd(x[2], y[2])
        l == (x[2] \div g) * y[2]
    IN Q(x[1] * (l \div x[2]) + y[1] * (l \div y[2]), l)

QSub(x, y) == QAdd(x, <<-y[1], y[2]>>)

\* a/b < c/d for a, c >= 0 and b, d > 0, by continued fractions (no products).
RECURSIVE FracLt(_, _, _, _)
FracLt(a, b, c, d) ==
    LET q1 == a \div b
        q2 == c \div d
        r1 == a % b
        r2 == c % d
    IN IF q1 # q2 THEN q1 < q2
       ELSE IF r2 = 0 THEN FALSE
       ELSE IF r1 = 0 THEN TRUE
       ELSE FracLt(d, r2, b, r1)

QLt(x, y) ==
    IF x[1] < 0
    THEN IF y[1] >= 0 THEN TRUE ELSE FracLt(-y[1], y[2], -x[1], x[2])
    ELSE IF y[1] < 0 THEN FALSE ELSE FracLt(x[1], x[2], y[1], y[2])

QLe(x, y) == ~QLt(y, x)
QMin(x, y) == IF QLt(y, x) THEN y ELSE x
QMax(x, y) == IF QLt(x, y) THEN y ELSE x

InUnit(x) == QLe(Zero, x) /\ QLe(x, One)

(***************************************************************************)
(* Strings (str methods used by the source)                                *)
(***************************************************************************)

\* str.lower(): "J" and "E" are the upper-case letters of the model alphabet.
Lower(s) ==
    [i \in 1..Len(s) |-> IF s[i] = "J" THEN "j" ELSE IF s[i] = "E" THEN "e" ELSE s[i]]

\* str.lstrip() / str.rstrip() / str.strip()
RECURSIVE LStrip(_)
LStrip(s) == IF s # <<>> /\ Head(s) = " " THEN LStrip(Tail(s)) ELSE s

RECURSIVE RStrip(_)
RStrip(s) ==
    IF s # <<>> /\ s[Len(s)] = " " THEN RStrip(SubSeq(s, 1, Len(s) - 1)) ELSE s

Strip(s) == RStrip(LStrip(s))

\* str.replace("-", " "): every hyphen becomes a space.
HyphensToSpaces(s) == [i \in 1..Len(s) |-> IF s[i] = "-" THEN " " ELSE s[i]]

\* str.replace("  ", " "): one left-to-right pass over non-overlapping
\* occurrences of two spaces.
RECURSIVE CollapseDoubleSpaces(_)
CollapseDoubleSpaces(s) ==
    IF Len(s) < 2 THEN s
    ELSE IF s[1] = " " /\ s[2] = " "
         THEN <<" ">> \o CollapseDoubleSpaces(SubSeq(s, 3, Len(s)))
         ELSE <<s[1]>> \o CollapseDoubleSpaces(Tail(s))

\* str.replace(".", "")
RECURSIVE RemoveDots(_)
RemoveDots(s) ==
    IF s = <<>> THEN <<>>
    ELSE IF Head(s) = "." THEN RemoveDots(Tail(s))
         ELSE <<Head(s)>> \o RemoveDots(Tail(s))

\* str.split(): the maximal runs of non-space characters.
RECURSIVE SplitFrom(_, _)
SplitFrom(s, word) ==
    IF s = <<>> THEN IF word = <<>> THEN <<>> ELSE <<word>>
    ELSE IF Head(s) = " "
         THEN IF word = <<>> THEN SplitFrom(Tail(s), <<>>)
              ELSE <<word>> \o SplitFrom(Tail(s), <<>>)
         ELSE SplitFrom(Tail(s), Append(word, Head(s)))

Split(s) == SplitFrom(s, <<>>)

\* " ".join(words)
RECURSIVE Join(_)
Join(words) ==
    IF words = <<>> THEN <<>>
    ELSE IF Len(words) = 1 THEN words[1]
         ELSE words[1] \o <<" ">> \o Join(Tail(words))

\* f"{first} {last}"
WithSpace(a, b) == a \o <<" ">> \o b

EndsWith(s, suffix) ==
    /\ Len(s) >= Len(suffix)
    /\ SubSeq(s, Len(s) - Len(suffix) + 1, Len(s)) = suffix

\* The words of a sequence that are not in a set.
RECURSIVE WordsNotIn(_, _)
WordsNotIn(words, set) ==
    IF words = <<>> THEN <<>>
    ELSE IF Head(words) \in set THEN WordsNotIn(Tail(words), set)
         ELSE <<Head(words)>> \o WordsNotIn(Tail(words), set)

(***************************************************************************)
(* Language tags and per-language word sets.  The word sets list the       *)
(* entries of the source's sets that can be spelled with the model         *)
(* alphabet (letters a d e j m o r x); no other entry can equal a word of  *)
(* a modelled name.  Two Han characters are written W (a character of      *)
(* CHINESE_SURNAMES, as U+738B) and M (a Han character that is not in      *)
(* CHINESE_SURNAMES, as U+660E); str.lower() leaves both as they are.      *)
(***************************************************************************)
ENGLISH == "en"
FRENCH == "fr"
GERMAN == "de"
ITALIAN == "it"
SPANISH == "es"
PORTUGUESE == "pt"
ARABIC == "ar"
RUSSIAN == "ru"
MANDARIN == "zh"

Language ==
    {ENGLISH, FRENCH, GERMAN, ITALIAN, SPANISH, PORTUGUESE, ARABIC, RUSSIAN, MANDARIN}

\* language: Language | None = None
None == "None"

\* The words of the model, by spelling.
Word ==
    [m |-> <<"m">>, e |-> <<"e">>, d |-> <<"d">>,
     dr |-> <<"d", "r">>, mr |-> <<"m", "r">>, de |-> <<"d", "e">>,
     da |-> <<"d", "a">>, do |-> <<"d", "o">>, am |-> <<"a", "m">>,
     jo |-> <<"j", "o">>, ed |-> <<"e", "d">>, ax |-> <<"a", "x">>,
     ma |-> <<"m", "a">>, mo |-> <<"m", "o">>,
     der |-> <<"d", "e", "r">>, dra |-> <<"d", "r", "a">>,
     dom |-> <<"d", "o", "m">>, mme |-> <<"m", "m", "e">>,
     mao |-> <<"m", "a", "o">>,
     dame |-> <<"d", "a", "m", "e">>,
     major |-> <<"m", "a", "j", "o", "r">>,
     madame |-> <<"m", "a", "d", "a", "m", "e">>]

\* <LANG>_PARTICLES of the language modules.
Particles(language) ==
    CASE language = GERMAN -> {<<"d", "e">>, <<"d", "e", "r">>, <<"a", "m">>}
      [] language = FRENCH -> {<<"d", "e">>, <<"d", "a">>}
      [] language = ITALIAN -> {<<"d", "e">>, <<"d", "a">>}
      [] language = SPANISH -> {<<"d", "e">>, <<"d", "a">>, <<"d", "o">>, <<"e">>}
      [] language = PORTUGUESE -> {<<"d", "e">>, <<"d", "a">>, <<"d", "o">>, <<"e">>}
      [] language = RUSSIAN -> {<<"d", "e">>, <<"d", "e", "r">>}
      [] OTHER -> {}

\* load_honorifics before the titles file is read: the copy of the built-in
\* set of the language (RUSSIAN and MANDARIN have no entry in honorifics_map).
\* It is the table of a matcher, whose data directories hold no titles file.
load_honorifics(language) ==
    CASE language = ENGLISH -> {<<"m", "r">>, <<"d", "r">>, <<"d", "a", "m", "e">>, <<"m", "a", "j", "o", "r">>}
      [] language = FRENCH -> {<<"m">>, <<"m", "m", "e">>, <<"m", "a", "d", "a", "m", "e">>, <<"d", "r">>, <<"m", "a", "j", "o", "r">>}
      [] language = GERMAN -> {<<"d", "r">>, <<"m", "a", "j", "o", "r">>}
      [] language = SPANISH -> {<<"d", "r">>, <<"d", "r", "a">>}
      [] language = PORTUGUESE -> {<<"d", "r">>, <<"d", "r", "a">>, <<"d", "o", "m">>, <<"m", "a", "j", "o", "r">>}
      [] language = ARABIC -> {<<"m", "r">>, <<"d", "r">>}
      [] OTHER -> {}

\* load_diminutives before the diminutives file is read: "diminutives = {}".
load_diminutives(language) == [name \in {} |-> <<>>]

\* functools.lru_cache around detect_language, load_honorifics and
\* load_diminutives: per function, the results stored under the arguments of
\* the calls made so far (the data directory of a matcher is fixed).
EmptyCache ==
    [detect_language |-> [name \in {} |-> ENGLISH],
     load_honorifics |-> [language \in {} |-> {}],
     load_diminutives |-> [language \in {} |-> [name \in {} |-> <<>>]]]

\* A hit returns the stored result; the function body is not run.
Cached(stored, key, computed) ==
    IF key \in DOMAIN stored THEN stored[key] ELSE computed

\* After a miss the result is stored, unless the key was stored meanwhile.
CacheStore(stored, key, result) ==
    IF key \in DOMAIN stored THEN stored
    ELSE [k \in DOMAIN stored \cup {key} |-> IF k = key THEN result ELSE stored[k]]

\* line.split(","): the pieces between the commas.
RECURSIVE SplitCommaFrom(_, _)
SplitCommaFrom(s, piece) ==
    IF s = <<>> THEN <<piece>>
    ELSE IF Head(s) = "," THEN <<piece>> \o SplitCommaFrom(Tail(s), <<>>)
    ELSE SplitCommaFrom(Tail(s), Append(piece, Head(s)))

\* One pass of the loop over the lines of a honorifics file: the title in
\* lower case and its variant without periods join the set.
AddTitle(honorifics, line) ==
    IF Strip(line) # <<>>
    THEN honorifics \cup {Lower(Strip(line)), RemoveDots(Lower(Strip(line)))}
    ELSE honorifics

\* list(existing): the elements of a set, each once, in the order in which
\* the set is iterated.
RECURSIVE ListOf(_)
ListOf(set) ==
    IF set = {} THEN <<>>
    ELSE LET x == CHOOSE y \in set : TRUE
         IN <<x>> \o ListOf(set \ {x})

\* "for name in parts", from the i-th part on: a name met for the first time
\* maps to the list of the other parts of the line as they stand; a name that
\* maps to a list already maps to the union of that list and the other parts,
\* made a list again.
RECURSIVE AddParts(_, _, _)
AddParts(diminutives, parts, i) ==
    IF i > Len(parts) THEN diminutives
    ELSE LET name == parts[i]
             Other(n) == n # name
             variants == SelectSeq(parts, Other)
             existing == {diminutives[name][k] : k \in 1..Len(diminutives[name])}
                         \cup {variants[k] : k \in 1..Len(variants)}
             entry == IF name \in DOMAIN diminutives THEN ListOf(existing) ELSE variants
         IN AddParts([n \in DOMAIN diminutives \cup {name} |->
                          IF n = name THEN entry ELSE diminutives[n]], parts, i + 1)

\* Mutant: only the first name of a line maps to the other names.
AddEquivalents_FirstNameOnly(diminutives, line) ==
    LET pieces == SplitCommaFrom(Strip(line), <<>>)
        parts == [i \in 1..Len(pieces) |-> Lower(Strip(pieces[i]))]
    IN IF Strip(line) # <<>> /\ (\E i \in 1..Len(line) : line[i] = ",")
       THEN AddParts(diminutives, parts, Len(parts))
       ELSE diminutives

\* One pass of the loop over the lines of a diminutives file: a stripped line
\* with a comma is split at the commas, its parts stripped and lowered.
AddEquivalents(diminutives, line) ==
    LET pieces == SplitCommaFrom(Strip(line), <<>>)
        parts == [i \in 1..Len(pieces) |-> Lower(Strip(pieces[i]))]
    IN IF Strip(line) # <<>> /\ (\E i \in 1..Len(line) : line[i] = ",")
       THEN AddParts(diminutives, parts, 1)
       ELSE diminutives

\* The two memoized loaders of data_loader.py.
Loaders == {"load_honorifics", "load_diminutives"}

\* The table a loader starts from: the copy of the built-in set, or {}.
TableStart(function, language) ==
    IF function = "load_honorifics" THEN load_honorifics(language)
    ELSE load_diminutives(language)

ReadLine(table, function, line) ==
    IF function = "load_honorifics" THEN AddTitle(table, line)
    ELSE AddEquivalents(table, line)

\* "if file_path.exists()": the lines of the language's file, none without it.
FileLines(dir, function, language) ==
    IF language \in DOMAIN dir[function] THEN dir[function][language] ELSE <<>>

\* Mutant: the loop over the lines stops after the first line.
LoadFinished_AfterFirstLine(line, lines) == line > 1 \/ line > Len(lines)

\* "for line in f" is exhausted: line is the number of the next line.
LoadFinished(line, lines) == line > Len(lines)

\* One uninterrupted run of a loader's body over the lines of the file.
RECURSIVE LoadLines(_, _, _)
LoadLines(table, function, lines) ==
    IF lines = <<>> THEN table
    ELSE LoadLines(ReadLine(table, function, Head(lines)), function, Tail(lines))

SequentialLoad(function, language, dir) ==
    LoadLines(TableStart(function, language), function, FileLines(dir, function, language))

\* common_honorifics of _strip_honorifics
common_honorifics == {<<"m", "r">>, <<"d", "r">>}

\* honorific_prefixes of _calculate_all_scores
honorific_prefixes == {<<"m">>, <<"m", "m", "e">>, <<"d", "r">>}

\* CHINESE_HONORIFICS, ROMANIZED_SURNAMES, CHINESE_SURNAMES of mandarin.py
CHINESE_HONORIFICS == {<<"d", "r">>, <<"m", "r">>}
CHINESE_SURNAMES == {"W"}
ROMANIZED_SURNAMES == {<<"m", "a">>, <<"m", "o">>, <<"m", "a", "o">>}

(***************************************************************************)
(* Configuration dataclasses of matcher.py                                 *)
(***************************************************************************)
\* MatchThresholds
thresholds ==
    [exact_match_confidence |-> One,
     hyphen_normalized_confidence |-> H(95),
     accent_match_confidence |-> H(95),
     high_score_threshold |-> H(90),
     medium_score_threshold |-> H(70),
     low_score_threshold |-> H(60),
     diminutive_boost_threshold |-> H(85),
     diminutive_boost_multiplier |-> H(105),
     phonetic_boost_threshold |-> H(88),
     phonetic_boost_multiplier |-> H(102),
     phonetic_raw_score_multiplier |-> H(80)]

\* CompositeScoreParams
params ==
    [very_low_cap_threshold |-> H(40),
     low_cap_threshold |-> H(35),
     medium_cap_threshold |-> H(30),
     very_low_max_score |-> H(40),
     low_max_score |-> H(40),
     medium_max_score |-> H(50),
     high_max_score |-> One,
     low_component_threshold |-> H(70),
     high_phonetic_threshold |-> H(94),
     very_high_phonetic_threshold |-> H(70),
     very_low_penalty_threshold |-> H(30),
     low_penalty_threshold |-> H(50),
     medium_penalty_threshold |-> H(70),
     very_low_penalty |-> H(40),
     low_penalty |-> H(60),
     medium_penalty |-> H(75),
     boost_range_1_min |-> T(870),
     boost_range_1_max |-> T(900),
     boost_range_1_target |-> T(905),
     boost_range_1_multiplier |-> T(1025),
     boost_range_2_min |-> T(905),
     boost_range_2_max |-> T(950),
     boost_range_2_target |-> T(960),
     boost_range_2_multiplier |-> T(1040),
     boost_range_3_min |-> T(943),
     boost_range_3_max |-> T(950),
     boost_range_3_target |-> T(960),
     boost_range_3_multiplier |-> T(1010)]

\* LengthPenaltyParams
length_penalty_params ==
    [min_length_difference |-> 3,
     length_penalty_factor |-> H(3),
     max_length_penalty |-> One]

\* HonorificParams
honorific_params ==
    [min_words_for_stripping |-> 2,
     special_case_word_count |-> 3]

\* AccentHandlingParams
accents ==
    [accent_boost_base |-> H(85),
     accent_boost_threshold |-> H(90),
     accent_boost_multiplier |-> H(150),
     accent_boost_max |-> H(95)]

\* CompoundNameParams
compounds ==
    [compound_boost_base |-> H(85),
     compound_boost_threshold |-> H(90),
     compound_boost_multiplier |-> H(150),
     compound_score_multiplier |-> H(75)]

\* MiddleNameParams
middle_names ==
    [both_empty_score |-> H(50),
     one_empty_score |-> Zero,
     initial_match_score |-> One,
     initial_no_match_score |-> Zero]

\* WeightingSchemes, as the weights dictionaries built from them.
weights ==
    [single_first |->
        [first_name |-> H(60), last_name |-> Zero, middle_name |-> Zero, phonetic |-> H(40)],
     single_last |->
        [first_name |-> Zero, last_name |-> H(60), middle_name |-> Zero, phonetic |-> H(40)],
     single_mixed |->
        [first_name |-> H(30), last_name |-> H(30), middle_name |-> Zero, phonetic |-> H(40)],
     high_phonetic |->
        [first_name |-> H(25), last_name |-> H(25), middle_name |-> H(10), phonetic |-> H(40)],
     standard |->
        [first_name |-> H(35), last_name |-> H(35), middle_name |-> H(15), phonetic |-> H(15)]]

(***************************************************************************)
(* NameMatcher.segment_name                                                *)
(***************************************************************************)
\* Mutant: the loop pops leading words whether or not they are honorifics.
PopHonorifics_AnyWord(cleaned_words, honorifics) ==
    IF Len(cleaned_words) > honorific_params.min_words_for_stripping
    THEN SubSeq(cleaned_words, Len(cleaned_words) - 1, Len(cleaned_words))
    ELSE cleaned_words

\* _strip_honorifics: the leading words popped by one of the two while loops.
RECURSIVE PopHonorifics(_, _)
PopHonorifics(cleaned_words, honorifics) ==
    IF /\ cleaned_words # <<>>
       /\ Len(cleaned_words) > honorific_params.min_words_for_stripping
       /\ RemoveDots(Lower(cleaned_words[1])) \in honorifics
    THEN PopHonorifics(Tail(cleaned_words), honorifics)
    ELSE cleaned_words

_strip_honorifics(name, language, memo) ==
    LET honorifics == Cached(memo.load_honorifics, language, load_honorifics(language))
        words == Split(name)
        french_particles == {<<"d", "e">>}
        german_particles == {<<"d", "e", "r">>, <<"d", "e">>, <<"a", "m">>}
        all_particles == french_particles \cup german_particles
        cleaned_words ==
            PopHonorifics(PopHonorifics(words, honorifics), common_honorifics)
    IN IF Len(words) <= honorific_params.min_words_for_stripping THEN name
       ELSE IF /\ Len(words) = honorific_params.special_case_word_count
               /\ RemoveDots(Lower(words[1])) \in honorifics
               /\ Lower(words[2]) \in all_particles
       THEN name
       ELSE IF cleaned_words = <<>> \/ Len(cleaned_words) < honorific_params.min_words_for_stripping
       THEN name
       ELSE Join(cleaned_words)

\* nameparser.HumanName(cleaned_name1) on space-separated words without commas:
\* a leading title word is the title; a title followed by a single word leaves
\* that word as the last name; otherwise first / middle... / last.
ParserTitles == {<<"d", "r">>, <<"m", "r">>}

Parsed(title, first, middle, last) ==
    [title |-> title, first |-> first, middle |-> middle, last |-> last,
     suffix |-> <<>>]

PlainParse(title, pieces) ==
    IF pieces = <<>> THEN Parsed(title, <<>>, <<>>, <<>>)
    ELSE IF Len(pieces) = 1
    THEN IF title = <<>> THEN Parsed(title, pieces[1], <<>>, <<>>)
         ELSE Parsed(title, <<>>, <<>>, pieces[1])
    ELSE Parsed(title, pieces[1], Join(SubSeq(pieces, 2, Len(pieces) - 1)),
                pieces[Len(pieces)])

HumanName(text) ==
    LET pieces == Split(text)
    IN IF pieces # <<>> /\ RemoveDots(Lower(pieces[1])) \in ParserTitles
       THEN PlainParse(pieces[1], Tail(pieces))
       ELSE PlainParse(<<>>, pieces)

\* The index of the first word after the first one that is a particle
\* (0 when there is none): "for i, word in enumerate(words) ... break".
RECURSIVE FirstParticleFrom(_, _, _)
FirstParticleFrom(words, i, particles) ==
    IF i > Len(words) THEN 0
    ELSE IF Lower(words[i]) \in particles THEN i
         ELSE FirstParticleFrom(words, i + 1, particles)

\* Mutant: with two words before the particle both stay in the first name.
AdjustByParticles_MiddleInFirst(parsed, words, particles) ==
    LET i == FirstParticleFrom(words, 2, particles)
    IN IF Len(words) < 3 \/ i = 0 THEN parsed
       ELSE [parsed EXCEPT !.last = Join(SubSeq(words, i, Len(words))),
                           !.first = Join(SubSeq(words, 1, i - 1)),
                           !.middle = <<>>]

\* The particle loop shared by adjust_german_parsing, adjust_french_parsing,
\* adjust_italian_parsing, adjust_spanish_parsing, adjust_portuguese_parsing
\* and the romanized branches of adjust_arabic_parsing and
\* adjust_russian_parsing (indices here are 1-based).
AdjustByParticles(parsed, words, particles) ==
    LET i == FirstParticleFrom(words, 2, particles)
    IN IF Len(words) < 3 \/ i = 0 THEN parsed
       ELSE IF i = 2
       THEN [parsed EXCEPT !.last = Join(SubSeq(words, i, Len(words))),
                           !.first = words[1], !.middle = <<>>]
       ELSE IF i = 3
       THEN [parsed EXCEPT !.last = Join(SubSeq(words, i, Len(words))),
                           !.first = words[1], !.middle = words[2]]
       ELSE [parsed EXCEPT !.last = Join(SubSeq(words, i, Len(words))),
                           !.first = Join(SubSeq(words, 1, i - 2)),
                           !.middle = words[i - 1]]

\* re.search(r"(ovich|evich|ich|ovna|evna|ichna)$", word, re.IGNORECASE)
IsPatronymic(word) ==
    \E suffix \in {<<"i", "c", "h">>, <<"o", "v", "n", "a">>,
                   <<"e", "v", "n", "a">>, <<"i", "c", "h", "n", "a">>} :
        EndsWith(Lower(word), suffix)

\* adjust_russian_parsing, romanized branch (no modelled character is Cyrillic).
adjust_russian_parsing(parsed, name) ==
    LET words == Split(name)
        byParticle == AdjustByParticles(parsed, words, Particles(RUSSIAN))
    IN IF Len(words) >= 3
       THEN IF Len(words) = 3 /\ IsPatronymic(words[2])
            THEN [byParticle EXCEPT !.first = words[1], !.middle = words[2],
                                    !.last = words[3]]
            ELSE byParticle
       ELSE IF Len(words) = 2
       THEN IF IsPatronymic(words[2])
            THEN [parsed EXCEPT !.first = words[1], !.middle = words[2],
                                !.last = <<>>]
            ELSE [parsed EXCEPT !.first = words[1], !.middle = <<>>,
                                !.last = words[2]]
       ELSE parsed

\* [word for word in original_parts if word.lower() not in CHINESE_HONORIFICS]
RECURSIVE WithoutChineseHonorifics(_)
WithoutChineseHonorifics(parts) ==
    IF parts = <<>> THEN <<>>
    ELSE IF Lower(Head(parts)) \in CHINESE_HONORIFICS
         THEN WithoutChineseHonorifics(Tail(parts))
         ELSE <<Head(parts)>> \o WithoutChineseHonorifics(Tail(parts))

\* re.match(r"[\u4e00-\u9fff\u3400-\u4dbf]", char)
is_chinese_character(char) == char \in {"W", "M"}

\* any(is_chinese_character(char) for char in text)
is_chinese_text(text) == \E i \in 1..Len(text) : is_chinese_character(text[i])

\* Mutant: three Han characters are always one surname character and two
\* given-name characters.
HanSplit_SingleSurname(parsed, chinese_chars) ==
    IF Len(chinese_chars) \in {2, 3}
    THEN [parsed EXCEPT !.last = <<chinese_chars[1]>>,
                        !.first = Tail(chinese_chars), !.middle = <<>>]
    ELSE IF Len(chinese_chars) >= 4
    THEN [parsed EXCEPT !.last = SubSeq(chinese_chars, 1, 2),
                        !.first = SubSeq(chinese_chars, 3, Len(chinese_chars)),
                        !.middle = <<>>]
    ELSE parsed

\* adjust_chinese_parsing, the branch of a name with Han characters: the
\* if / elif chain over len(chinese_chars).
HanSplit(parsed, chinese_chars) ==
    IF Len(chinese_chars) = 2
    THEN [parsed EXCEPT !.last = <<chinese_chars[1]>>,
                        !.first = <<chinese_chars[2]>>, !.middle = <<>>]
    ELSE IF Len(chinese_chars) = 3
    THEN IF chinese_chars[1] \in CHINESE_SURNAMES
         THEN [parsed EXCEPT !.last = <<chinese_chars[1]>>,
                             !.first = SubSeq(chinese_chars, 2, 3),
                             !.middle = <<>>]
         ELSE [parsed EXCEPT !.last = SubSeq(chinese_chars, 1, 2),
                             !.first = <<chinese_chars[3]>>, !.middle = <<>>]
    ELSE IF Len(chinese_chars) = 4
    THEN [parsed EXCEPT !.last = SubSeq(chinese_chars, 1, 2),
                        !.first = SubSeq(chinese_chars, 3, 4), !.middle = <<>>]
    ELSE IF Len(chinese_chars) >= 5
    THEN [parsed EXCEPT !.last = SubSeq(chinese_chars, 1, 2),
                        !.first = SubSeq(chinese_chars, 3, Len(chinese_chars)),
                        !.middle = <<>>]
    ELSE parsed

adjust_chinese_parsing(parsed, name) ==
    LET original_parts == Split(name)
        words == WithoutChineseHonorifics(original_parts)
    IN IF is_chinese_text(name)
       THEN HanSplit(parsed, SelectSeq(name, is_chinese_character))
       ELSE IF Len(words) = 2
       THEN IF Lower(words[1]) \in ROMANIZED_SURNAMES
            THEN [parsed EXCEPT !.last = words[1], !.first = words[2],
                                !.middle = <<>>]
            ELSE [parsed EXCEPT !.first = words[1], !.last = words[2],
                                !.middle = <<>>]
       ELSE IF Len(words) = 3
       THEN IF Lower(words[1]) \in ROMANIZED_SURNAMES
            THEN [parsed EXCEPT !.last = words[1],
                                !.first = Join(SubSeq(words, 2, 3)),
                                !.middle = <<>>]
            ELSE [parsed EXCEPT !.first = words[1], !.middle = words[2],
                                !.last = words[3]]
       ELSE parsed

\* "Language-specific adjustments": the match statement of segment_name.
AdjustParsing(parsed, cleaned_name, language) ==
    CASE language \in {GERMAN, FRENCH, ITALIAN, SPANISH, PORTUGUESE, ARABIC} ->
            AdjustByParticles(parsed, Split(cleaned_name), Particles(language))
      [] language = RUSSIAN -> adjust_russian_parsing(parsed, cleaned_name)
      [] language = MANDARIN -> adjust_chinese_parsing(parsed, cleaned_name)
      [] OTHER -> parsed

segment_name(name, language, memo) ==
    LET cleaned_name == _strip_honorifics(name, language, memo)
        parsed == AdjustParsing(HumanName(cleaned_name), cleaned_name, language)
    IN [first |-> Strip(parsed.first), middle |-> Strip(parsed.middle),
        last |-> Strip(parsed.last), prefix |-> Strip(parsed.title),
        suffix |-> Strip(parsed.suffix), original |-> name,
        language |-> language]

(***************************************************************************)
(* utils.py: distances.  jellyfish and the phonetic encoders are external  *)
(* libraries: their results on strings that differ are inputs of the call, *)
(* handed down as jw (a Jaro-Winkler similarity) and key (a similarity of  *)
(* two phonetic keys).                                                     *)
(***************************************************************************)
\* s.lower().strip().replace("-", " ").replace("  ", " ")
NormalizeHyphens(s) == CollapseDoubleSpaces(HyphensToSpaces(Strip(Lower(s))))

\* jellyfish.jaro_winkler_similarity: 0.0 when either string is empty.
jaro_winkler_similarity(a, b, jw) == IF a = <<>> \/ b = <<>> THEN Zero ELSE jw

\* calculate_distance(s1, s2), algorithm "jaro_winkler"
calculate_distance(s1, s2, jw) ==
    LET s1_norm == NormalizeHyphens(s1)
        s2_norm == NormalizeHyphens(s2)
    IN IF s1_norm = s2_norm THEN One
       ELSE jaro_winkler_similarity(s1_norm, s2_norm, jw)

Min2(a, b) == IF a < b THEN a ELSE b
Max2(a, b) == IF a > b THEN a ELSE b

\* jellyfish.levenshtein_distance: the edit distance, row by row.
RECURSIVE LevRow(_, _, _, _, _)
LevRow(prev, ch, b, j, row) ==
    IF j > Len(b) THEN row
    ELSE LET cost == IF ch = b[j] THEN 0 ELSE 1
             v == Min2(Min2(prev[j + 1] + 1, row[j] + 1), prev[j] + cost)
         IN LevRow(prev, ch, b, j + 1, Append(row, v))

RECURSIVE LevRows(_, _, _, _)
LevRows(a, b, i, prev) ==
    IF i > Len(a) THEN prev[Len(b) + 1]
    ELSE LevRows(a, b, i + 1, LevRow(prev, a[i], b, 1, <<prev[1] + 1>>))

levenshtein_distance(a, b) == LevRows(a, b, 1, [j \in 1..(Len(b) + 1) |-> j - 1])

\* Mutant: the strings are compared as given before the library is asked.
calculate_distance_by_AsGiven(s1, s2, algorithm, o) ==
    LET s1_norm == NormalizeHyphens(s1)
        s2_norm == NormalizeHyphens(s2)
        max_len == IF Len(s1_norm) > Len(s2_norm) THEN Len(s1_norm) ELSE Len(s2_norm)
    IN IF s1 = s2 THEN One
       ELSE IF algorithm = "jaro"
       THEN IF s1_norm = <<>> \/ s2_norm = <<>> THEN Zero ELSE o.jaro
       ELSE IF algorithm = "levenshtein"
       THEN IF max_len = 0 THEN One
            ELSE QSub(One, Q(levenshtein_distance(s1_norm, s2_norm), max_len))
       ELSE jaro_winkler_similarity(s1_norm, s2_norm, o.whole)

\* calculate_distance(s1, s2, algorithm): the match statement over the
\* algorithm names, "case _" being every other name.  o.whole and o.jaro are
\* what jellyfish.jaro_winkler_similarity and jellyfish.jaro_similarity
\* return for the two normalized strings.
calculate_distance_by(s1, s2, algorithm, o) ==
    LET s1_norm == NormalizeHyphens(s1)
        s2_norm == NormalizeHyphens(s2)
        max_len == IF Len(s1_norm) > Len(s2_norm) THEN Len(s1_norm) ELSE Len(s2_norm)
    IN IF s1_norm = s2_norm THEN One
       ELSE IF algorithm = "jaro"
       THEN IF s1_norm = <<>> \/ s2_norm = <<>> THEN Zero ELSE o.jaro
       ELSE IF algorithm = "levenshtein"
       THEN IF max_len = 0 THEN One
            ELSE QSub(One, Q(levenshtein_distance(s1_norm, s2_norm), max_len))
       ELSE jaro_winkler_similarity(s1_norm, s2_norm, o.whole)

CharSet(s) == {s[i] : i \in 1..Len(s)}
Bigrams(s) == {SubSeq(s, i, i + 1) : i \in 1..(Len(s) - 1)}

\* len(a & b) / len(a | b) if a | b else 0
Jaccard(a, b) ==
    IF a \cup b = {} THEN Zero ELSE Q(Cardinality(a \cap b), Cardinality(a \cup b))

\* Factor 3: the sum of 1.0 - i / max(max_len, 10) over matching positions.
RECURSIVE PositionalSum(_, _, _, _)
PositionalSum(n1, n2, i, max_len) ==
    IF i > Min2(Len(n1), Len(n2)) THEN Zero
    ELSE QAdd(IF n1[i] = n2[i]
              THEN QSub(One, Q(i - 1, Max2(max_len, 10)))
              ELSE Zero,
              PositionalSum(n1, n2, i + 1, max_len))

calculate_statistical_similarity(nameA, nameB, jw) ==
    LET n1 == Strip(Lower(nameA))
        n2 == Strip(Lower(nameB))
        max_len == Max2(Len(n1), Len(n2))
        min_len == Min2(Len(n1), Len(n2))
        length_ratio == Q(min_len, max_len)
        length_penalty == QAdd(H(50), QMul(length_ratio, H(50)))
        char_overlap == Jaccard(CharSet(n1), CharSet(n2))
        positional_score ==
            IF min_len > 0
            THEN QMul(PositionalSum(n1, n2, 1, max_len), Q(1, min_len))
            ELSE Zero
        bigram_overlap == Jaccard(Bigrams(n1), Bigrams(n2))
        edit_similarity == QSub(One, Q(levenshtein_distance(n1, n2), max_len))
        jw_similarity == jaro_winkler_similarity(n1, n2, jw)
        combined_score ==
            QAdd(QAdd(QAdd(QMul(H(15), length_penalty), QMul(H(20), char_overlap)),
                      QAdd(QMul(H(25), positional_score), QMul(H(15), bigram_overlap))),
                 QAdd(QMul(H(15), edit_similarity), QMul(H(10), jw_similarity)))
        short_adjusted ==
            IF max_len < 6 /\ QLt(char_overlap, H(50))
            THEN QMul(combined_score, H(70)) ELSE combined_score
        length_adjusted ==
            IF QLt(length_ratio, H(60))
            THEN QMul(short_adjusted, QAdd(H(50), QMul(length_ratio, H(50))))
            ELSE short_adjusted
    IN IF nameA = <<>> \/ nameB = <<>> THEN Zero
       ELSE IF n1 = n2 THEN One
       ELSE IF max_len = 0 THEN One
       ELSE QMin(One, QMax(Zero, length_adjusted))

(***************************************************************************)
(* Script-specific comparators, on the romanized (Latin) branch: no name   *)
(* of a modelled match_names call has an Arabic, Cyrillic or Han character.*)
(***************************************************************************)
calculate_arabic_similarity(nameA, nameB, jw) == calculate_distance(nameA, nameB, jw)

\* Mutant: the 1.05 boost without the min(1.0, ...) clamp.
calculate_russian_similarity_unclamped(nameA, nameB, jw) ==
    LET base_score == calculate_distance(nameA, nameB, jw)
    IN IF QLt(H(80), base_score) THEN QMul(base_score, H(105)) ELSE base_score

calculate_russian_similarity(nameA, nameB, jw) ==
    LET base_score == calculate_distance(nameA, nameB, jw)
    IN IF QLt(H(80), base_score) THEN QMin(One, QMul(base_score, H(105)))
       ELSE base_score

\* normalize_chinese_surname: no key of romanization_variants is spelled with
\* the model alphabet.
normalize_chinese_surname(surname) == Lower(surname)

calculate_chinese_similarity(nameA, nameB, jw) ==
    calculate_distance(normalize_chinese_surname(nameA),
                       normalize_chinese_surname(nameB), jw)

\* Mutant: only the language tag of side 1 picks the comparator.
DirectScore_FirstTagOnly(a, b, lang1, lang2, jw) ==
    IF lang1 = ARABIC THEN calculate_arabic_similarity(a, b, jw)
    ELSE IF lang1 = RUSSIAN THEN calculate_russian_similarity(a, b, jw)
    ELSE IF lang1 = MANDARIN THEN calculate_chinese_similarity(a, b, jw)
    ELSE calculate_distance(a, b, jw)

\* The if / elif chain that picks the comparator of first names and surnames.
DirectScore(a, b, lang1, lang2, jw) ==
    IF lang1 = ARABIC \/ lang2 = ARABIC THEN calculate_arabic_similarity(a, b, jw)
    ELSE IF lang1 = RUSSIAN \/ lang2 = RUSSIAN
    THEN calculate_russian_similarity(a, b, jw)
    ELSE IF lang1 = MANDARIN \/ lang2 = MANDARIN
    THEN calculate_chinese_similarity(a, b, jw)
    ELSE calculate_distance(a, b, jw)

\* One of the three script-specific branches is taken.
ScriptSpecific(lang1, lang2) ==
    {lang1, lang2} \cap {ARABIC, RUSSIAN, MANDARIN} # {}

\* "Use language-specific similarity functions for whole name comparison"
WholeNameSimilarity(full_name1, full_name2, lang1, lang2, jw) ==
    IF lang1 = ARABIC \/ lang2 = ARABIC
    THEN calculate_arabic_similarity(full_name1, full_name2, jw)
    ELSE IF lang1 = RUSSIAN \/ lang2 = RUSSIAN
    THEN calculate_russian_similarity(full_name1, full_name2, jw)
    ELSE IF lang1 = MANDARIN \/ lang2 = MANDARIN
    THEN calculate_chinese_similarity(full_name1, full_name2, jw)
    ELSE calculate_statistical_similarity(full_name1, full_name2, jw)

(***************************************************************************)
(* NameMatcher component comparators.  unidecode and                       *)
(* normalize_german_umlauts leave every modelled (ASCII) character as it   *)
(* is, so the unaccented and the German form of a name are its lower case. *)
(***************************************************************************)

\* max(direct_score, min(accents.accent_boost_max, base + (best - threshold) * multiplier))
\* when best > accents.accent_boost_threshold
AccentBoost(direct_score, best_accent_score) ==
    IF QLt(accents.accent_boost_threshold, best_accent_score)
    THEN QMax(direct_score,
              QMin(accents.accent_boost_max,
                   QAdd(accents.accent_boost_base,
                        QMul(QSub(best_accent_score, accents.accent_boost_threshold),
                             accents.accent_boost_multiplier))))
    ELSE direct_score

\* Mutant: the forms the name maps to and the forms these map to.
expand_diminutives_TwoHops(name, language, memo) ==
    LET diminutives == Cached(memo.load_diminutives, language,
                   SequentialLoad("load_diminutives", language, data_dir))
        Forms(n) == IF n \in DOMAIN diminutives
                    THEN {diminutives[n][k] : k \in 1..Len(diminutives[n])} ELSE {}
    IN <<Lower(name)>>
       \o ListOf((Forms(Lower(name)) \cup UNION {Forms(f) : f \in Forms(Lower(name))})
                 \ {Lower(name)})

\* [name_lower] + diminutives[name_lower]
expand_diminutives(name, language, memo) ==
    LET diminutives == Cached(memo.load_diminutives, language,
                   SequentialLoad("load_diminutives", language, data_dir))
    IN IF Lower(name) \in DOMAIN diminutives
       THEN <<Lower(name)>> \o diminutives[Lower(name)]
       ELSE <<Lower(name)>>

\* Mutant: the expansion in the side's own language only.
AllVariants_OwnLanguageOnly(name, lang, other_lang, memo) ==
    {Lower(name)} \cup {expand_diminutives(name, lang, memo)[k] :
                           k \in 1..Len(expand_diminutives(name, lang, memo))}

\* all_variants: set([name.lower()]), updated with the expansion in the
\* side's own language and, when the two languages differ, with the expansion
\* in every other member of Language.
AllVariants(name, lang, other_lang, memo) ==
    LET Update(l) == {expand_diminutives(name, l, memo)[k] :
                          k \in 1..Len(expand_diminutives(name, l, memo))}
    IN {Lower(name)} \cup Update(lang)
       \cup (IF lang # other_lang
             THEN UNION {Update(l) : l \in Language \ {lang}}
             ELSE {})

RECURSIVE QMaxOver(_, _)
QMaxOver(set, floor) ==
    IF set = {} THEN floor
    ELSE LET x == CHOOSE y \in set : TRUE
         IN QMaxOver(set \ {x}, QMax(floor, x))

\* re.split(r"[-\s]+", name.lower()), empty pieces dropped by "if part1 and part2"
NameParts(name) == Split(HyphensToSpaces(Lower(name)))

_compare_names_with_diminutives(nameA, nameB, lang1, lang2, jw, memo) ==
    LET direct_score == DirectScore(nameA, nameB, lang1, lang2, jw)
        unaccented_score == calculate_distance(Lower(nameA), Lower(nameB), jw)
        german_score == calculate_distance(Lower(nameA), Lower(nameB), jw)
        accent_direct == AccentBoost(direct_score, QMax(unaccented_score, german_score))
        parts1 == NameParts(nameA)
        parts2 == NameParts(nameB)
        best_part_score ==
            QMaxOver({calculate_distance(parts1[i], parts2[j], jw) :
                          i \in 1..Len(parts1), j \in 1..Len(parts2)}, Zero)
        compound_score ==
            IF QLt(compounds.compound_boost_threshold, best_part_score)
            THEN QMin(thresholds.exact_match_confidence,
                      QAdd(compounds.compound_boost_base,
                           QMul(QSub(best_part_score, compounds.compound_boost_threshold),
                                compounds.compound_boost_multiplier)))
            ELSE QMul(best_part_score, compounds.compound_score_multiplier)
        best_variant ==
            QMaxOver({calculate_distance(v1, v2, jw) :
                          v1 \in AllVariants(nameA, lang1, lang2, memo),
                          v2 \in AllVariants(nameB, lang2, lang1, memo)}, accent_direct)
        best_diminutive_score ==
            IF QLt(accent_direct, best_variant) /\ QLt(thresholds.diminutive_boost_threshold, best_variant)
            THEN QMin(thresholds.exact_match_confidence, QMul(best_variant, thresholds.diminutive_boost_multiplier))
            ELSE best_variant
    IN IF nameA = <<>> \/ nameB = <<>> THEN Zero
       ELSE IF QLt(thresholds.high_score_threshold, direct_score) THEN direct_score
       ELSE IF Lower(nameA) = Lower(nameB) THEN thresholds.accent_match_confidence
       ELSE QMax(QMax(accent_direct, compound_score), best_diminutive_score)

\* normalize_<language>_surname: lower case, particles dropped unless nothing
\* would be left; English and Mandarin only lower the case; no Arabic particle
\* is spelled with the model alphabet.
_normalize_surname(surname, language) ==
    IF language \in {ENGLISH, MANDARIN, ARABIC} THEN Lower(surname)
    ELSE LET words == Split(Lower(surname))
             filtered == WordsNotIn(words, Particles(language))
         IN IF filtered # <<>> THEN Join(filtered) ELSE Lower(surname)

\* Mutant: equal unaccented surnames are scored like any other pair.
_compare_surnames_NoShortCircuit(surname1, surname2, lang1, lang2, jw) ==
    LET clean1 == _normalize_surname(surname1, lang1)
        clean2 == _normalize_surname(surname2, lang2)
        direct_score == DirectScore(clean1, clean2, lang1, lang2, jw)
        best_accent_score == calculate_distance(Lower(clean1), Lower(clean2), jw)
    IN IF surname1 = <<>> \/ surname2 = <<>> THEN Zero
       ELSE AccentBoost(direct_score, best_accent_score)

_compare_surnames(surname1, surname2, lang1, lang2, jw) ==
    LET clean1 == _normalize_surname(surname1, lang1)
        clean2 == _normalize_surname(surname2, lang2)
        direct_score == DirectScore(clean1, clean2, lang1, lang2, jw)
        best_accent_score == calculate_distance(Lower(clean1), Lower(clean2), jw)
    IN IF surname1 = <<>> \/ surname2 = <<>> THEN Zero
       ELSE IF Lower(clean1) = Lower(clean2) THEN thresholds.accent_match_confidence
       ELSE AccentBoost(direct_score, best_accent_score)

\* Mutant: only an initial on the first side is recognised.
_compare_middle_names_FirstInitialOnly(middle1, middle2, jw) ==
    IF middle1 = <<>> \/ middle2 = <<>>
    THEN IF middle1 = <<>> /\ middle2 = <<>> THEN middle_names.both_empty_score ELSE middle_names.one_empty_score
    ELSE IF Len(middle1) = 1 /\ Len(middle2) > 1
    THEN IF Lower(middle1)[1] = Lower(middle2)[1]
         THEN middle_names.initial_match_score ELSE middle_names.initial_no_match_score
    ELSE calculate_distance(middle1, middle2, jw)

\* Mutant: two empty middle names score like one empty middle name.
_compare_middle_names_EmptyIsZero(middle1, middle2, jw) ==
    IF middle1 = <<>> \/ middle2 = <<>> THEN middle_names.one_empty_score
    ELSE IF Len(middle1) = 1 /\ Len(middle2) > 1
    THEN IF Lower(middle1)[1] = Lower(middle2)[1]
         THEN middle_names.initial_match_score ELSE middle_names.initial_no_match_score
    ELSE IF Len(middle2) = 1 /\ Len(middle1) > 1
    THEN IF Lower(middle2)[1] = Lower(middle1)[1]
         THEN middle_names.initial_match_score ELSE middle_names.initial_no_match_score
    ELSE calculate_distance(middle1, middle2, jw)

_compare_middle_names(middle1, middle2, jw) ==
    IF middle1 = <<>> \/ middle2 = <<>>
    THEN IF middle1 = <<>> /\ middle2 = <<>> THEN middle_names.both_empty_score ELSE middle_names.one_empty_score
    ELSE IF Len(middle1) = 1 /\ Len(middle2) > 1
    THEN IF Lower(middle1)[1] = Lower(middle2)[1]
         THEN middle_names.initial_match_score ELSE middle_names.initial_no_match_score
    ELSE IF Len(middle2) = 1 /\ Len(middle1) > 1
    THEN IF Lower(middle2)[1] = Lower(middle1)[1]
         THEN middle_names.initial_match_score ELSE middle_names.initial_no_match_score
    ELSE calculate_distance(middle1, middle2, jw)

\* re.sub(r"[^a-z]", "", unidecode(text.lower().strip()))
RECURSIVE LettersOnly(_)
LettersOnly(s) ==
    IF s = <<>> THEN <<>>
    ELSE IF Head(s) \in {" ", "-", "."} THEN LettersOnly(Tail(s))
    ELSE <<Head(s)>> \o LettersOnly(Tail(s))

\* calculate_distance(phonetic_encoding(a, alg), phonetic_encoding(b, alg)): a
\* text without letters encodes to itself, equal letters encode to equal keys,
\* and key is the similarity of the two keys otherwise.
PhoneticKeyScore(a, b, key) ==
    LET clean1 == LettersOnly(Strip(Lower(a)))
        clean2 == LettersOnly(Strip(Lower(b)))
    IN IF clean1 # <<>> /\ clean2 # <<>>
       THEN IF clean1 = clean2 THEN One ELSE key
       ELSE IF clean1 = <<>> /\ clean2 = <<>>
       THEN calculate_distance(Strip(Lower(a)), Strip(Lower(b)), key)
       ELSE IF NormalizeHyphens(IF clean1 = <<>> THEN a ELSE b) = <<>> THEN Zero
       ELSE key

_compare_phonetic(nameA, nameB, keyM, keyS, jw) ==
    LET best_score == QMax(QMax(Zero, PhoneticKeyScore(nameA, nameB, keyM)),
                           PhoneticKeyScore(nameA, nameB, keyS))
        raw_score == calculate_distance(nameA, nameB, jw)
        unaccented_similarity == calculate_distance(Lower(nameA), Lower(nameB), jw)
        boosted == AccentBoost(best_score, unaccented_similarity)
        final_score == QMax(boosted, QMul(raw_score, thresholds.phonetic_raw_score_multiplier))
    IN IF Lower(nameA) = Lower(nameB) THEN thresholds.accent_match_confidence
       ELSE IF QLt(thresholds.phonetic_boost_threshold, final_score)
       THEN QMin(thresholds.exact_match_confidence, QMul(final_score, thresholds.phonetic_boost_multiplier))
       ELSE final_score

\* Mutant: len_diff >= length_penalty_params.min_length_difference in place of >.
LengthPenalty_AtLeast(nameA, nameB) ==
    LET len_diff == Abs(Len(nameA) - Len(nameB))
        max_len == Max2(Len(nameA), Len(nameB))
        name1_words == Split(Lower(nameA))
        name2_words == Split(Lower(nameB))
        likely_honorific_difference ==
            \/ name1_words # <<>> /\ RemoveDots(name1_words[1]) \in honorific_prefixes
            \/ name2_words # <<>> /\ RemoveDots(name2_words[1]) \in honorific_prefixes
    IN IF max_len > 0 /\ len_diff >= length_penalty_params.min_length_difference /\ ~likely_honorific_difference
       THEN QSub(length_penalty_params.max_length_penalty, QMul(Q(len_diff, max_len), length_penalty_params.length_penalty_factor))
       ELSE length_penalty_params.max_length_penalty

\* "Length penalty calculation" of _calculate_all_scores
LengthPenalty(nameA, nameB) ==
    LET len_diff == Abs(Len(nameA) - Len(nameB))
        max_len == Max2(Len(nameA), Len(nameB))
        name1_words == Split(Lower(nameA))
        name2_words == Split(Lower(nameB))
        likely_honorific_difference ==
            \/ name1_words # <<>> /\ RemoveDots(name1_words[1]) \in honorific_prefixes
            \/ name2_words # <<>> /\ RemoveDots(name2_words[1]) \in honorific_prefixes
    IN IF max_len > 0 /\ len_diff > length_penalty_params.min_length_difference /\ ~likely_honorific_difference
       THEN QSub(length_penalty_params.max_length_penalty, QMul(Q(len_diff, max_len), length_penalty_params.length_penalty_factor))
       ELSE length_penalty_params.max_length_penalty

\* f"{components.first} {components.last}".strip()
FullName(c) == Strip(c.first \o <<" ">> \o c.last)

\* o holds what the external libraries return for this call.
_calculate_all_scores(c1, c2, nameA, nameB, o, memo) ==
    [whole_name |-> WholeNameSimilarity(FullName(c1), FullName(c2),
                                        c1.language, c2.language, o.whole),
     first_name |-> _compare_names_with_diminutives(c1.first, c2.first,
                                        c1.language, c2.language, o.first, memo),
     last_name |-> _compare_surnames(c1.last, c2.last,
                                     c1.language, c2.language, o.last),
     middle_name |-> _compare_middle_names(c1.middle, c2.middle, o.middle),
     phonetic |-> _compare_phonetic(FullName(c1), FullName(c2),
                                    o.key, o.key, o.whole),
     length_penalty |-> LengthPenalty(nameA, nameB)]

(***************************************************************************)
(* NameMatcher._calculate_composite_score                                  *)
(***************************************************************************)
\* "Determine caps based on whole-name similarity"
\* Mutant: no cap is selected.
MaxPossibleScore_Uncapped(whole_name_similarity, first_score, last_score) ==
    params.high_max_score

MaxPossibleScore(whole_name_similarity, first_score, last_score) ==
    IF /\ QLt(whole_name_similarity, params.very_low_cap_threshold)
       /\ QLt(first_score, thresholds.low_score_threshold)
       /\ QLt(last_score, thresholds.low_score_threshold)
    THEN params.very_low_max_score
    ELSE IF QLt(whole_name_similarity, params.low_cap_threshold)
    THEN params.low_max_score
    ELSE IF /\ QLt(whole_name_similarity, params.medium_cap_threshold)
            /\ \/ QLt(first_score, thresholds.medium_score_threshold)
               \/ QLt(last_score, thresholds.medium_score_threshold)
    THEN params.medium_max_score
    ELSE params.high_max_score

\* bool(components.first.strip()) and bool(components.last.strip()); the
\* components handed over are already stripped by segment_name.
HasFirst(c) == c.first # <<>>
HasLast(c) == c.last # <<>>

\* Mutant: only the first side is looked at.
IsSingleName_FirstSideOnly(c1, c2) ==
    \/ (~HasFirst(c1) /\ HasLast(c1))
    \/ (HasFirst(c1) /\ ~HasLast(c1))

\* "Determine if single name case"
IsSingleName(c1, c2) ==
    \/ (~HasFirst(c1) /\ HasLast(c1))
    \/ (HasFirst(c1) /\ ~HasLast(c1))
    \/ (~HasFirst(c2) /\ HasLast(c2))
    \/ (HasFirst(c2) /\ ~HasLast(c2))

\* Mutant: the elif on phonetic_score > params.high_phonetic_threshold is missing.
SelectWeights_NoHighPhonetic(first_score, last_score, phonetic_score, c1, c2) ==
    IF IsSingleName(c1, c2)
    THEN IF HasFirst(c1) /\ HasFirst(c2) THEN weights.single_first
         ELSE IF HasLast(c1) /\ HasLast(c2) THEN weights.single_last
         ELSE weights.single_mixed
    ELSE IF /\ QLt(first_score, params.low_component_threshold)
            /\ QLt(last_score, params.low_component_threshold)
            /\ QLt(params.very_high_phonetic_threshold, phonetic_score)
         THEN weights.high_phonetic
         ELSE weights.standard

\* "Calculate weights"
SelectWeights(first_score, last_score, phonetic_score, c1, c2) ==
    IF IsSingleName(c1, c2)
    THEN IF HasFirst(c1) /\ HasFirst(c2) THEN weights.single_first
         ELSE IF HasLast(c1) /\ HasLast(c2) THEN weights.single_last
         ELSE weights.single_mixed
    ELSE IF /\ QLt(first_score, params.low_component_threshold)
            /\ QLt(last_score, params.low_component_threshold)
            /\ QLt(params.very_high_phonetic_threshold, phonetic_score)
         THEN weights.high_phonetic
         ELSE IF QLt(params.high_phonetic_threshold, phonetic_score)
         THEN weights.high_phonetic
         ELSE weights.standard

\* sum(scores[component] * weight for component, weight in weights.items())
WeightedSum(s, w) ==
    QAdd(QAdd(QMul(s.first_name, w.first_name), QMul(s.last_name, w.last_name)),
         QAdd(QMul(s.middle_name, w.middle_name), QMul(s.phonetic, w.phonetic)))

\* Mutant: three independent ifs, so the penalties multiply up.
PenaltyMultiplier_Cumulative(first_score, last_score) ==
    QMul(QMul(IF /\ QLt(first_score, params.very_low_penalty_threshold)
                 /\ QLt(last_score, params.very_low_penalty_threshold)
              THEN params.very_low_penalty ELSE One,
              IF /\ QLt(first_score, params.low_penalty_threshold)
                 /\ QLt(last_score, params.low_penalty_threshold)
              THEN params.low_penalty ELSE One),
         IF /\ QLt(first_score, params.medium_penalty_threshold)
            /\ QLt(last_score, params.medium_penalty_threshold)
         THEN params.medium_penalty ELSE One)

\* "Apply penalties": the multiplier of the if / elif / elif chain.
PenaltyMultiplier(first_score, last_score) ==
    IF /\ QLt(first_score, params.very_low_penalty_threshold)
       /\ QLt(last_score, params.very_low_penalty_threshold)
    THEN params.very_low_penalty
    ELSE IF /\ QLt(first_score, params.low_penalty_threshold)
            /\ QLt(last_score, params.low_penalty_threshold)
    THEN params.low_penalty
    ELSE IF /\ QLt(first_score, params.medium_penalty_threshold)
            /\ QLt(last_score, params.medium_penalty_threshold)
    THEN params.medium_penalty
    ELSE One

\* The first band without its upper end.
ThresholdBoost_NoUpperEnd(x) ==
    IF QLe(params.boost_range_1_min, x)
    THEN QMin(params.boost_range_1_target, QMul(x, params.boost_range_1_multiplier))
    ELSE x

\* "Threshold boosts": the if / elif / elif chain over the three ranges.
ThresholdBoost(x) ==
    IF QLe(params.boost_range_1_min, x) /\ QLt(x, params.boost_range_1_max)
    THEN QMin(params.boost_range_1_target, QMul(x, params.boost_range_1_multiplier))
    ELSE IF QLe(params.boost_range_2_min, x) /\ QLt(x, params.boost_range_2_max)
    THEN QMin(params.boost_range_2_target, QMul(x, params.boost_range_2_multiplier))
    ELSE IF QLe(params.boost_range_3_min, x) /\ QLt(x, params.boost_range_3_max)
    THEN QMin(params.boost_range_3_target, QMul(x, params.boost_range_3_multiplier))
    ELSE x

\* The composite before the threshold boosts: weighted sum, clamp to the cap,
\* penalty multiplier, length penalty.
PreBoostWith(s, w) ==
    LET cap == MaxPossibleScore(s.whole_name, s.first_name, s.last_name)
        capped == QMin(WeightedSum(s, w), cap)
        penalised == QMul(capped, PenaltyMultiplier(s.first_name, s.last_name))
    IN QMul(penalised, s.length_penalty)

PreBoostScore(s, c1, c2) ==
    PreBoostWith(s, SelectWeights(s.first_name, s.last_name, s.phonetic, c1, c2))

\* The value returned, and the scores dictionary as the call leaves it
\* (it stores scores["max_possible_score"]).
CompositeScore(s, c1, c2) == ThresholdBoost(PreBoostScore(s, c1, c2))

ScoresAfterComposite(s) ==
    [k \in DOMAIN s \cup {"max_possible_score"} |->
        IF k = "max_possible_score"
        THEN MaxPossibleScore(s.whole_name, s.first_name, s.last_name)
        ELSE s[k]]

(***************************************************************************)
(* Calls of the composite scorer on given component scores                 *)
(***************************************************************************)
NoComponents ==
    [first |-> <<>>, middle |-> <<>>, last |-> <<>>, prefix |-> <<>>,
     suffix |-> <<>>, original |-> <<>>, language |-> ENGLISH]

\* The answers of a call that asks the libraries nothing.
NoAnswers ==
    [first |-> H(50), last |-> H(50), middle |-> H(50), whole |-> H(50),
     key |-> H(50), whole_raises |-> FALSE,
     jaro |-> H(50), langdetect1 |-> ENGLISH, langdetect2 |-> ENGLISH]

(***************************************************************************)
(* Threads that call load_honorifics and load_diminutives.                 *)
(***************************************************************************)
MaxThreads == 2

\* A thread outside the loaders.
IdleThread ==
    [pc |-> "idle", function |-> "load_honorifics", language |-> ENGLISH,
     line |-> 0, table |-> {}]

EmptyDir ==
    [load_honorifics |-> [language \in {} |-> <<>>],
     load_diminutives |-> [language \in {} |-> <<>>]]

\* A data directory with a titles file for French ("Jo.", a blank line,
\* " ed") and a diminutives file for English ("jo,ed", "jo, ax", "x").
SampleDir ==
    [load_honorifics |->
        [language \in {FRENCH} |-> <<<<"J", "o", ".">>, <<>>, <<" ", "e", "d">>>>],
     load_diminutives |->
        [language \in {ENGLISH} |->
            <<<<"j", "o", ",", "e", "d">>, <<"j", "o", ",", " ", "a", "x">>, <<"x">>>>]]

\* The longest diminutives file of the data directories below.
MaxRows == 2

\* The data directories of a process: none of the two above, or one with a
\* diminutives file for English of rows that list the same names in either
\* order ("jo,ed", "ed,jo"), share a name ("jo,ed", "ed,ax") or list a name
\* twice ("jo,ed,ed").
DataDirs ==
    LET Rows == {Word.jo \o <<",">> \o Word.ed, Word.ed \o <<",">> \o Word.jo,
                 Word.ed \o <<",">> \o Word.ax,
                 Word.jo \o <<",">> \o Word.ed \o <<",">> \o Word.ed}
    IN {EmptyDir, SampleDir}
       \cup {[EmptyDir EXCEPT !.load_diminutives = [language \in {ENGLISH} |-> file]] :
                file \in UNION {[1..n -> Rows] : n \in 1..MaxRows}}

\* No thread calls the loaders; the data directory holds no file.
NoLoading ==
    /\ thread = [t \in 1..MaxThreads |-> IdleThread]
    /\ builds = [function \in Loaders |-> [language \in {ENGLISH, FRENCH} |-> 0]]
    /\ data_dir = EmptyDir

\* The scores dictionaries handed to _calculate_composite_score: a grid
\* around the thresholds of the caps, penalties and boosts.
ScoreInputs ==
    [whole_name : {H(29), H(30), H(34), H(35), H(37), H(40)},
     first_name : {Zero, H(30), H(50), H(60), H(65), H(70), H(90), One},
     last_name : {Zero, H(30), H(50), H(60), H(65), H(70), H(90), One},
     middle_name : {Zero, H(50), One},
     phonetic : {H(65), H(70), H(71), H(94), H(95), One},
     length_penalty : {One, H(97)}]

\* A call of _calculate_composite_score: its scores dictionary and the two
\* component records, with empty or non-empty first and last names, are the
\* arguments.
InitScore ==
    /\ NoLoading
    /\ pc = "composite_call"
    /\ name1 = <<>>
    /\ name2 = <<>>
    /\ language1 = ENGLISH
    /\ language2 = ENGLISH
    /\ confidence = Zero
    /\ method = "none"
    /\ answers = NoAnswers
    /\ cleaned_name1 = <<>>
    /\ cache = EmptyCache
    /\ pending = <<>>
    /\ \E f1 \in {<<>>, <<"x">>}, l1 \in {<<>>, <<"x">>} :
          components1 = [NoComponents EXCEPT !.first = f1, !.last = l1]
    /\ \E f2 \in {<<>>, <<"x">>}, l2 \in {<<>>, <<"x">>} :
          components2 = [NoComponents EXCEPT !.first = f2, !.last = l2]
    /\ scores \in ScoreInputs

CalculateCompositeScore ==
    /\ pc = "composite_call"
    /\ pc' = "composite"
    /\ scores' = ScoresAfterComposite(scores)
    /\ confidence' = CompositeScore(scores, components1, components2)
    /\ UNCHANGED <<name1, name2, language1, language2, components1, components2,
                   method, answers, cleaned_name1, cache, pending, thread, builds, data_dir>>

SpecScore == InitScore /\ [][CalculateCompositeScore]_vars

(***************************************************************************)
(* NameMatcher.match_names                                                 *)
(***************************************************************************)
ExactScores ==
    [first_name |-> thresholds.exact_match_confidence, last_name |-> thresholds.exact_match_confidence,
     middle_name |-> thresholds.exact_match_confidence, phonetic |-> thresholds.exact_match_confidence,
     composite |-> thresholds.exact_match_confidence, length_penalty |-> thresholds.exact_match_confidence]

\* Mutant: the hyphen path reports no length_penalty.
HyphenScores_WithoutLengthPenalty ==
    [first_name |-> thresholds.hyphen_normalized_confidence,
     last_name |-> thresholds.hyphen_normalized_confidence,
     middle_name |-> thresholds.hyphen_normalized_confidence,
     phonetic |-> thresholds.hyphen_normalized_confidence,
     composite |-> thresholds.hyphen_normalized_confidence]

HyphenScores ==
    [first_name |-> thresholds.hyphen_normalized_confidence,
     last_name |-> thresholds.hyphen_normalized_confidence,
     middle_name |-> thresholds.hyphen_normalized_confidence,
     phonetic |-> thresholds.hyphen_normalized_confidence,
     composite |-> thresholds.hyphen_normalized_confidence,
     length_penalty |-> thresholds.exact_match_confidence]

\* name.strip().lower().replace("-", " ").replace("  ", " ")
HyphenNormalized(name) == CollapseDoubleSpaces(HyphensToSpaces(Lower(Strip(name))))

\* Mutant: scores["composite"] is the value before the threshold boosts.
AdvancedScores_PreBoost(s, c1, c2) ==
    [k \in DOMAIN s \cup {"max_possible_score", "composite"} |->
        IF k = "composite" THEN PreBoostScore(s, c1, c2)
        ELSE IF k = "max_possible_score"
        THEN MaxPossibleScore(s.whole_name, s.first_name, s.last_name)
        ELSE s[k]]

\* The scores dictionary of the advanced path: _calculate_composite_score has
\* stored scores["max_possible_score"], then scores["composite"] is set.
AdvancedScores(s, c1, c2) ==
    [k \in DOMAIN s \cup {"max_possible_score", "composite"} |->
        IF k = "composite" THEN CompositeScore(s, c1, c2)
        ELSE IF k = "max_possible_score"
        THEN MaxPossibleScore(s.whole_name, s.first_name, s.last_name)
        ELSE s[k]]

\* MatchResult(confidence, name1, name2, scores, method)
MatchResult(conf, c1, c2, sc, tag) ==
    [confidence |-> conf, name1 |-> c1, name2 |-> c2,
     scores |-> sc, method |-> tag]

\* The advanced path.  The script-specific whole-name comparator is called
\* outside any try block, so an exception raised in it leaves
\* _calculate_all_scores and match_names.
AdvancedMatch(nameA, nameB, c1, c2, o, memo) ==
    IF ScriptSpecific(c1.language, c2.language) /\ o.whole_raises
    THEN [exception |-> "Exception"]
    ELSE MatchResult(CompositeScore(_calculate_all_scores(c1, c2, nameA, nameB, o, memo),
                                    c1, c2),
                     c1, c2,
                     AdvancedScores(_calculate_all_scores(c1, c2, nameA, nameB, o, memo),
                                    c1, c2),
                     "advanced_multilingual")

\* Mutant: the comparison of the exact-match check without .lower().
ExactEqual_CaseSensitive(nameA, nameB) == Strip(nameA) = Strip(nameB)

\* name1.strip().lower() == name2.strip().lower()
ExactEqual(nameA, nameB) == Lower(Strip(nameA)) = Lower(Strip(nameB))

\* Mutant: the hyphen check runs before the exact-match check.
MatchSegmented_hyphen_first(nameA, nameB, c1, c2, o, memo) ==
    IF HyphenNormalized(nameA) = HyphenNormalized(nameB)
    THEN MatchResult(thresholds.hyphen_normalized_confidence, c1, c2,
                     HyphenScores, "hyphen_normalized_match")
    ELSE IF ExactEqual(nameA, nameB)
    THEN MatchResult(thresholds.exact_match_confidence, c1, c2,
                     ExactScores, "exact_match")
    ELSE AdvancedMatch(nameA, nameB, c1, c2, o, memo)

\* The three return paths of match_names, given the two segmentations.
MatchSegmented(nameA, nameB, c1, c2, o, memo) ==
    IF ExactEqual(nameA, nameB)
    THEN MatchResult(thresholds.exact_match_confidence, c1, c2,
                     ExactScores, "exact_match")
    ELSE IF HyphenNormalized(nameA) = HyphenNormalized(nameB)
    THEN MatchResult(thresholds.hyphen_normalized_confidence, c1, c2,
                     HyphenScores, "hyphen_normalized_match")
    ELSE AdvancedMatch(nameA, nameB, c1, c2, o, memo)

\* detect_language for names none of whose words is in a pattern bank of the
\* heuristics (the names of SessionCalls): Han characters decide for
\* Mandarin, a name of one word falls through to the default, and for a name
\* of two or more words the answer of langdetect.detect_langs decides, which
\* is mapped to a Language and is English when the library is not confident.
detect_language(name, langdetect) ==
    IF \E i \in 1..Len(name) : is_chinese_character(name[i]) THEN MANDARIN
    ELSE IF Len(Split(name)) >= 2 THEN langdetect
    ELSE ENGLISH

\* "if language is None: language = self.detect_language(name)", the
\* detection being memoized.
DetectedLanguage(name, language, langdetect, memo) ==
    IF language # None THEN language
    ELSE Cached(memo.detect_language, name, detect_language(name, langdetect))

\* The caches after segment_name(name, language): the detection result when
\* there was no tag, and the honorific table of the language.
CacheAfterSegment(memo, name, language, langdetect) ==
    [detect_language |->
        IF language # None THEN memo.detect_language
        ELSE CacheStore(memo.detect_language, name,
                        DetectedLanguage(name, language, langdetect, memo)),
     load_honorifics |->
        CacheStore(memo.load_honorifics,
                   DetectedLanguage(name, language, langdetect, memo),
                   load_honorifics(DetectedLanguage(name, language, langdetect, memo))),
     load_diminutives |-> memo.load_diminutives]

\* The first-name comparator reaches expand_diminutives unless it returned
\* before: on an empty name, a high direct score or equal unaccented names.
ExpandsDiminutives(nameA, nameB, lang1, lang2, jw) ==
    /\ nameA # <<>>
    /\ nameB # <<>>
    /\ ~QLt(thresholds.high_score_threshold, DirectScore(nameA, nameB, lang1, lang2, jw))
    /\ Lower(nameA) # Lower(nameB)

\* The languages whose diminutive table a call loads: none off the advanced
\* path or when the whole-name comparator raised; else the two languages,
\* and every language when the two differ.
DiminutiveLanguages(nameA, nameB, c1, c2, o) ==
    IF \/ ExactEqual(nameA, nameB)
       \/ HyphenNormalized(nameA) = HyphenNormalized(nameB)
       \/ ScriptSpecific(c1.language, c2.language) /\ o.whole_raises
       \/ ~ExpandsDiminutives(c1.first, c2.first, c1.language, c2.language, o.first)
    THEN {}
    ELSE IF c1.language = c2.language THEN {c1.language} ELSE Language

\* The second name is segmented with the caches the first segmentation left.
match_names(nameA, nameB, lang1, lang2, o, memo) ==
    MatchSegmented(nameA, nameB,
                   segment_name(nameA, DetectedLanguage(nameA, lang1, o.langdetect1, memo), memo),
                   segment_name(nameB,
                                DetectedLanguage(nameB, lang2, o.langdetect2,
                                    CacheAfterSegment(memo, nameA, lang1, o.langdetect1)),
                                CacheAfterSegment(memo, nameA, lang1, o.langdetect1)),
                   o, memo)

\* The caches after match_names: those of the two segmentations and the
\* diminutive tables the first-name comparator loaded.
CacheAfterMatch(memo, nameA, nameB, lang1, lang2, o) ==
    LET after == CacheAfterSegment(CacheAfterSegment(memo, nameA, lang1, o.langdetect1),
                                   nameB, lang2, o.langdetect2)
        languages ==
            DiminutiveLanguages(nameA, nameB,
                segment_name(nameA, IF lang1 # None THEN lang1
                                    ELSE after.detect_language[nameA], memo),
                segment_name(nameB, IF lang2 # None THEN lang2
                                    ELSE after.detect_language[nameB], memo), o)
    IN [after EXCEPT !.load_diminutives =
            [l \in DOMAIN @ \cup languages |->
                IF l \in DOMAIN @ THEN @[l]
                ELSE SequentialLoad("load_diminutives", l, data_dir)]]

(***************************************************************************)
(* Inputs of a match_names call.                                           *)
(***************************************************************************)
MaxLen == 7

NameInputs ==
    {n \in {<<>>, Word.jo, Word.ed,
     WithSpace(Word.jo, Word.ed),
     <<"J", "o", " ", "E", "d">>,
     <<" ">> \o WithSpace(Word.jo, Word.ed),
     Word.jo \o <<"-">> \o Word.ed,
     Word.jo \o <<" ", " ">> \o Word.ed,
     WithSpace(Word.jo, Word.ax),
     WithSpace(Word.dr, Word.ed),
     WithSpace(Word.de, Word.ed),
     WithSpace(Word.jo, WithSpace(Word.d, Word.ed)),
     WithSpace(Word.jo, WithSpace(<<"-">>, Word.ed)),
     WithSpace(Word.m, WithSpace(Word.jo, Word.ed)),
     WithSpace(Word.jo, WithSpace(Word.ed, Word.ax)),
     WithSpace(Word.dr, WithSpace(Word.jo, Word.ed)),
     WithSpace(Word.jo, <<"e", "-", "d">>),
     WithSpace(Word.ed, <<"e", "-", "-", "d">>)} : Len(n) <= MaxLen}

\* A call without a language tag runs detect_language(name) and goes on as a
\* call with that tag, so tagged calls cover it.
LanguageInputs == {ENGLISH, FRENCH, RUSSIAN, MANDARIN}

\* The library is asked only about unequal non-empty strings; where it is not
\* asked its answer is fixed.
Asked(a, b, grid) ==
    IF a = <<>> \/ b = <<>> \/ Strip(Lower(a)) = Strip(Lower(b))
    THEN {H(50)} ELSE grid

\* What the external libraries may do during one call: the Jaro-Winkler
\* similarity of the first names, surnames, middle names and full names and of
\* the phonetic keys of the full names, and whether the script-specific
\* whole-name comparator raises (it is called on the advanced path only).
\* For two unequal non-empty strings the string library answers 0.50 or 0.95,
\* for two phonetic keys 0.50 or 1.0.  The calls carry language tags, so
\* langdetect is not asked.
LibraryAnswers(c1, c2) ==
    [first : Asked(c1.first, c2.first, {H(50), H(95)}),
     last : Asked(c1.last, c2.last, {H(50), H(95)}),
     middle : Asked(c1.middle, c2.middle, {H(50), H(95)}),
     whole : Asked(FullName(c1), FullName(c2), {H(50), H(95)}),
     key : Asked(FullName(c1), FullName(c2), {H(50), One}),
     whole_raises :
        IF /\ ScriptSpecific(c1.language, c2.language)
           /\ HyphenNormalized(c1.original) # HyphenNormalized(c2.original)
        THEN BOOLEAN ELSE {FALSE},
     langdetect1 : {ENGLISH},
     langdetect2 : {ENGLISH},
     jaro : {H(50)}]

\* A call of match_names with its four arguments.
InitMatch ==
    /\ NoLoading
    /\ pc = "match_call"
    /\ components1 = NoComponents
    /\ components2 = NoComponents
    /\ scores = <<>>
    /\ confidence = Zero
    /\ method = "none"
    /\ cleaned_name1 = <<>>
    /\ cache = EmptyCache
    /\ pending = <<>>
    /\ name1 \in NameInputs
    /\ name2 \in NameInputs
    /\ language1 \in LanguageInputs
    /\ language2 \in LanguageInputs
    /\ answers \in LibraryAnswers(segment_name(name1, language1, EmptyCache),
                                  segment_name(name2, language2, EmptyCache))

\* The call returns a MatchResult or ends with an exception.
MatchNames ==
    /\ pc = "match_call"
    /\ \E r \in {match_names(name1, name2, language1, language2, answers, cache)} :
          IF "exception" \in DOMAIN r
          THEN /\ pc' = "raised"
               /\ UNCHANGED <<components1, components2, scores, confidence, method>>
          ELSE /\ pc' = "matched"
               /\ components1' = r.name1
               /\ components2' = r.name2
               /\ scores' = r.scores
               /\ confidence' = r.confidence
               /\ method' = r.method
    /\ cache' = CacheAfterMatch(cache, name1, name2, language1, language2, answers)
    /\ UNCHANGED <<name1, name2, language1, language2, answers, cleaned_name1, pending,
                   thread, builds, data_dir>>

SpecMatch == InitMatch /\ [][MatchNames]_vars

(***************************************************************************)
(* Calls of match_names on a matcher built with a data directory: one-word *)
(* names, which are first names, and diminutives files for English         *)
(* ("jo,ed") and French ("jo,ax" and "ed,mo").                             *)
(***************************************************************************)
VariantDir ==
    [EmptyDir EXCEPT !.load_diminutives =
        [language \in {ENGLISH, FRENCH} |->
            IF language = ENGLISH THEN <<Word.jo \o <<",">> \o Word.ed>>
            ELSE <<Word.jo \o <<",">> \o Word.ax, Word.ed \o <<",">> \o Word.mo>>]]

InitVariants ==
    /\ thread = [t \in 1..MaxThreads |-> IdleThread]
    /\ builds = [function \in Loaders |-> [language \in {ENGLISH, FRENCH} |-> 0]]
    /\ data_dir \in {EmptyDir, VariantDir}
    /\ pc = "match_call"
    /\ name1 \in {Word.jo, Word.ed, Word.ax, Word.mo, <<"J", "o">>}
    /\ name2 \in {Word.jo, Word.ed, Word.ax, Word.mo, <<"J", "o">>}
    /\ language1 \in {ENGLISH, FRENCH, GERMAN}
    /\ language2 \in {ENGLISH, FRENCH, GERMAN}
    /\ components1 = NoComponents
    /\ components2 = NoComponents
    /\ scores = <<>>
    /\ confidence = Zero
    /\ method = "none"
    /\ answers \in LibraryAnswers(segment_name(name1, language1, EmptyCache),
                                  segment_name(name2, language2, EmptyCache))
    /\ cleaned_name1 = <<>>
    /\ cache = EmptyCache
    /\ pending = <<>>

SpecVariants == InitVariants /\ [][MatchNames]_vars

(***************************************************************************)
(* Calls of NameMatcher.segment_name with an explicit language tag.        *)
(***************************************************************************)
MaxWords == 4

\* Names of at most MaxWords words, as written and with a leading space.
\* The words: an honorific of the common list ("mr."), a Portuguese
\* honorific, two particles, a plain word, and three words with Han
\* characters.
SegmentInputs ==
    LET SegmentWords ==
            {Word.mr \o <<".">>, Word.dom, Word.de, Word.da, Word.jo,
             <<"W">>, <<"x", "M">>, <<"W", "M">>}
    IN UNION {{Join(words), <<" ">> \o Join(words)} :
                 words \in UNION {[1..n -> SegmentWords] : n \in 0..MaxWords}}

InitSegment ==
    /\ NoLoading
    /\ pc = "segment_call"
    /\ name1 \in SegmentInputs
    /\ language1 \in Language
    /\ name2 = <<>>
    /\ language2 = ENGLISH
    /\ components1 = NoComponents
    /\ components2 = NoComponents
    /\ scores = <<>>
    /\ confidence = Zero
    /\ method = "none"
    /\ answers = NoAnswers
    /\ cleaned_name1 = <<>>
    /\ cache = EmptyCache
    /\ pending = <<>>

\* segment_name(name1, language1); cleaned_name1 is its local cleaned_name.
SegmentName ==
    /\ pc = "segment_call"
    /\ pc' = "segmented"
    /\ cleaned_name1' =
          _strip_honorifics(name1, DetectedLanguage(name1, language1, answers.langdetect1, cache), cache)
    /\ components1' =
          segment_name(name1, DetectedLanguage(name1, language1, answers.langdetect1, cache), cache)
    /\ cache' = CacheAfterSegment(cache, name1, language1, answers.langdetect1)
    /\ UNCHANGED <<name1, name2, language1, language2, components2, scores,
                   confidence, method, answers, pending, thread, builds, data_dir>>

SpecSegment == InitSegment /\ [][SegmentName]_vars

(***************************************************************************)
(* A batch: calls made one after the other by one process, whose memo      *)
(* caches live as long as the process.  The batches are shorter than the   *)
(* size of the caches (maxsize=1024), so no entry is evicted.              *)
(***************************************************************************)
MaxCalls == 2

\* The calls of a batch.  No word of the names is in a pattern bank of
\* detect_language; "m" is a French honorific and no English one.  A call is
\* made without language tags or with one tag for both names.
SessionCalls ==
    LET SessionNames ==
            {WithSpace(Word.m, WithSpace(Word.jo, Word.ed)), WithSpace(Word.jo, Word.ax)}
        SessionTags == {None, ENGLISH, FRENCH}
    IN [op : {"match_names"}, name1 : SessionNames, name2 : SessionNames,
        language : SessionTags]
       \cup [op : {"segment_name"}, name1 : SessionNames, name2 : {<<>>},
             language : SessionTags]

\* What the libraries answer during a call of a batch.  langdetect draws
\* random samples (no seed is set), so its answer for a name may differ from
\* one call to the next; the string library answers alike throughout.
SessionAnswers ==
    {[NoAnswers EXCEPT !.langdetect1 = l1, !.langdetect2 = l2] :
        l1 \in {ENGLISH, FRENCH}, l2 \in {ENGLISH, FRENCH}}

\* A process with empty caches and the calls it is going to make.
InitSession ==
    /\ NoLoading
    /\ pc = "batch"
    /\ name1 = <<>>
    /\ name2 = <<>>
    /\ language1 = ENGLISH
    /\ language2 = ENGLISH
    /\ components1 = NoComponents
    /\ components2 = NoComponents
    /\ scores = <<>>
    /\ confidence = Zero
    /\ method = "none"
    /\ answers = NoAnswers
    /\ cleaned_name1 = <<>>
    /\ cache = EmptyCache
    /\ pending \in UNION {[1..n -> SessionCalls] : n \in 1..MaxCalls}

\* The next call of the batch starts; the caches are those the earlier calls
\* left.
NextCall ==
    /\ pc \in {"batch", "matched", "raised", "segmented"}
    /\ pending # <<>>
    /\ pc' = IF Head(pending).op = "match_names" THEN "match_call" ELSE "segment_call"
    /\ name1' = Head(pending).name1
    /\ name2' = Head(pending).name2
    /\ language1' = Head(pending).language
    /\ language2' = Head(pending).language
    /\ answers' \in SessionAnswers
    /\ components1' = NoComponents
    /\ components2' = NoComponents
    /\ scores' = <<>>
    /\ confidence' = Zero
    /\ method' = "none"
    /\ cleaned_name1' = <<>>
    /\ pending' = Tail(pending)
    /\ UNCHANGED <<cache, thread, builds, data_dir>>

\* Threads of one process with empty caches and a fixed data directory.
InitLoad ==
    /\ pc = "loaders"
    /\ name1 = <<>>
    /\ name2 = <<>>
    /\ language1 = ENGLISH
    /\ language2 = ENGLISH
    /\ components1 = NoComponents
    /\ components2 = NoComponents
    /\ scores = <<>>
    /\ confidence = Zero
    /\ method = "none"
    /\ answers = NoAnswers
    /\ cleaned_name1 = <<>>
    /\ cache = EmptyCache
    /\ pending = <<>>
    /\ thread = [t \in 1..MaxThreads |-> IdleThread]
    /\ builds = [function \in Loaders |-> [language \in {ENGLISH, FRENCH} |-> 0]]
    /\ data_dir \in DataDirs

matching == <<pc, name1, name2, language1, language2, components1, components2,
              scores, confidence, method, answers, cleaned_name1, pending>>

\* A thread calls a loader: the wrapper looks the arguments up; on a hit it
\* returns the stored table, on a miss the loader's body starts.  builds
\* counts the runs of a loader's body.
LoadCall(t) ==
    /\ pc = "loaders"
    /\ thread[t].pc = "idle"
    /\ \E function \in Loaders, language \in {ENGLISH, FRENCH} :
          IF language \in DOMAIN cache[function]
          THEN /\ thread' = [thread EXCEPT ![t] =
                     [pc |-> "returned", function |-> function, language |-> language,
                      line |-> 0, table |-> cache[function][language]]]
               /\ UNCHANGED builds
          ELSE /\ thread' = [thread EXCEPT ![t] =
                     [pc |-> "loading", function |-> function, language |-> language,
                      line |-> 1, table |-> TableStart(function, language)]]
               /\ builds' = [builds EXCEPT ![function][language] = @ + 1]
    /\ UNCHANGED <<matching, cache, data_dir>>

\* The body reads the next line of the file into its local table.
ReadFileLine(t) ==
    /\ thread[t].pc = "loading"
    /\ ~LoadFinished(thread[t].line,
                     FileLines(data_dir, thread[t].function, thread[t].language))
    /\ thread' = [thread EXCEPT
          ![t].table = ReadLine(@, thread[t].function,
                FileLines(data_dir, thread[t].function, thread[t].language)[thread[t].line]),
          ![t].line = @ + 1]
    /\ UNCHANGED <<matching, cache, builds, data_dir>>

\* The body returns its table; the wrapper stores it and hands it to the
\* caller.
LoadReturn(t) ==
    /\ thread[t].pc = "loading"
    /\ LoadFinished(thread[t].line,
                    FileLines(data_dir, thread[t].function, thread[t].language))
    /\ cache' = [cache EXCEPT ![thread[t].function] =
                    CacheStore(@, thread[t].language, thread[t].table)]
    /\ thread' = [thread EXCEPT ![t].pc = "returned"]
    /\ UNCHANGED <<matching, builds, data_dir>>

\* The caller goes on and may call a loader again.
LoadDone(t) ==
    /\ thread[t].pc = "returned"
    /\ thread' = [thread EXCEPT ![t] = IdleThread]
    /\ UNCHANGED <<matching, cache, builds, data_dir>>

Loader ==
    \E t \in 1..MaxThreads : LoadCall(t) \/ ReadFileLine(t) \/ LoadReturn(t) \/ LoadDone(t)

SpecLoad == InitLoad /\ [][Loader]_vars

SpecSession == InitSession /\ [][NextCall \/ MatchNames \/ SegmentName]_vars

(***************************************************************************)
(* Calls of calculate_distance and of NameMatcher._compare_middle_names on *)
(* two strings.                                                            *)
(***************************************************************************)
\* The call: the function and, for calculate_distance, the algorithm named
\* ("soundex" names no algorithm of calculate_distance).  The strings
\* compared: empty, blank, in either case, with a leading space, with a
\* hyphen, with two spaces, with a spaced hyphen and with two hyphens between
\* the words, and single letters.
InitCompare ==
    LET CompareStrings ==
            {<<>>, <<" ">>, Word.e, <<"E">>, Word.d, Word.ed, <<"E", "d">>, Word.jo,
             <<" ">> \o Word.jo, WithSpace(Word.jo, Word.ed),
             Word.jo \o <<"-">> \o Word.ed, Word.jo \o <<" ", " ">> \o Word.ed,
             Word.jo \o <<" ", "-", " ">> \o Word.ed, Word.jo \o <<"-", "-">> \o Word.ed}
    IN
       /\ NoLoading
       /\ pc = "compare_call"
       /\ name1 \in CompareStrings
       /\ name2 \in CompareStrings
       /\ language1 = ENGLISH
       /\ language2 = ENGLISH
       /\ components1 = NoComponents
       /\ components2 = NoComponents
       /\ scores = <<>>
       /\ confidence = Zero
       /\ method = "none"
       /\ answers \in {[NoAnswers EXCEPT !.whole = w, !.jaro = j, !.middle = w] :
                          w \in {H(50), H(95)}, j \in {H(30), H(50)}}
       /\ cleaned_name1 = <<>>
       /\ cache = EmptyCache
       /\ pending \in {<<call>> :
               call \in [op : {"calculate_distance"},
                         algorithm : {"jaro_winkler", "jaro", "levenshtein", "soundex"}]
                        \cup [op : {"_compare_middle_names"}, algorithm : {"jaro_winkler"}]}

\* calculate_distance(name1, name2, algorithm) returns.
CalculateDistance ==
    /\ pc = "compare_call"
    /\ Head(pending).op = "calculate_distance"
    /\ pc' = "compared"
    /\ confidence' = calculate_distance_by(name1, name2, Head(pending).algorithm, answers)
    /\ UNCHANGED <<name1, name2, language1, language2, components1, components2, scores,
                   method, answers, cleaned_name1, cache, pending, thread, builds, data_dir>>

\* _compare_middle_names(name1, name2) returns.
CompareMiddleNames ==
    /\ pc = "compare_call"
    /\ Head(pending).op = "_compare_middle_names"
    /\ pc' = "compared"
    /\ confidence' = _compare_middle_names(name1, name2, answers.middle)
    /\ UNCHANGED <<name1, name2, language1, language2, components1, components2, scores,
                   method, answers, cleaned_name1, cache, pending, thread, builds, data_dir>>

SpecCompare == InitCompare /\ [][CalculateDistance \/ CompareMiddleNames]_vars

Init == InitMatch \/ InitScore \/ InitSegment \/ InitSession \/ InitLoad \/ InitVariants
        \/ InitCompare

Next == MatchNames \/ CalculateCompositeScore \/ SegmentName \/ NextCall \/ Loader
        \/ CalculateDistance \/ CompareMiddleNames

Spec == Init /\ [][Next]_vars

(***************************************************************************)
(* Properties                                                              *)
(***************************************************************************)
Composed == pc = "composite"
Segmented == pc = "segmented"
Matched == pc = "matched"
Advanced == Matched /\ method = "advanced_multilingual"

\* C1: match_names returns a confidence in [0,1] and every entry of the scores
\* mapping is in [0,1] on each of the three paths; the value that
\* _calculate_composite_score produces for component scores in [0,1] and a
\* length penalty in [0.97,1] is in [0,1].
C1_Bounds ==
    /\ Matched => /\ InUnit(confidence)
                  /\ \A k \in DOMAIN scores : InUnit(scores[k])
    /\ Composed => /\ InUnit(confidence)
                   /\ \A k \in DOMAIN scores : InUnit(scores[k])

\* An advanced match whose Russian first-name comparison hit the 1.0 clamp.
C1_Witness ==
    /\ Advanced
    /\ RUSSIAN \in {language1, language2}
    /\ scores.first_name = One
    /\ QLt(Zero, confidence) /\ QLt(confidence, One)

\* C2: names equal after trimming and case-folding give confidence 1.0,
\* method "exact_match" and every reported sub-score 1.0, whatever the
\* language tags and the segmentation.
C2_ExactMatch ==
    (Matched /\ Lower(Strip(name1)) = Lower(Strip(name2))) =>
        /\ confidence = <<1, 1>>
        /\ method = "exact_match"
        /\ DOMAIN scores # {}
        /\ \A k \in DOMAIN scores : scores[k] = <<1, 1>>

\* Two spellings that differ in case, under different language tags.
C2_Witness ==
    /\ Matched
    /\ method = "exact_match"
    /\ name1 # name2
    /\ Strip(name1) # Strip(name2)
    /\ language1 # language2
    /\ components1.last # <<>>

C4_CapEnforced ==
    (/\ Composed
     /\ QLt(scores.whole_name, <<3, 10>>)
     /\ QLt(scores.first_name, <<3, 5>>)
     /\ QLt(scores.last_name, <<3, 5>>))
        => QLe(confidence, <<2, 5>>)

\* A capped call with the highest phonetic score and a non-zero result.
C4_Witness ==
    /\ Composed
    /\ QLt(scores.whole_name, <<3, 10>>)
    /\ scores.first_name = <<1, 2>>
    /\ scores.last_name = <<1, 2>>
    /\ scores.phonetic = One
    /\ scores.max_possible_score = <<2, 5>>
    /\ QLt(Zero, confidence)

\* The decision table of C5, evaluated in order.
C5_ClaimedCap(whole, first, last) ==
    IF QLt(whole, <<3, 10>>) /\ QLt(first, <<3, 5>>) /\ QLt(last, <<3, 5>>)
    THEN <<2, 5>>
    ELSE IF QLt(whole, <<7, 20>>) THEN <<2, 5>>
    ELSE IF QLt(whole, <<2, 5>>) /\ (QLt(first, <<7, 10>>) \/ QLt(last, <<7, 10>>))
    THEN <<1, 2>>
    ELSE <<1, 1>>

\* C5: the cap selected by the composite scorer follows the table: whole < 0.30
\* with first and last < 0.60 gives 0.40; else whole < 0.35 gives 0.40; else
\* whole < 0.40 with first or last < 0.70 gives 0.50; else 1.0.
C5_CapTable ==
    Composed => scores.max_possible_score =
                    C5_ClaimedCap(scores.whole_name, scores.first_name, scores.last_name)

\* The bands of C6, the last applicable one winning.
C6_ClaimedBoost(x) ==
    IF QLe(<<943, 1000>>, x) /\ QLt(x, <<19, 20>>)
    THEN QMin(<<24, 25>>, QMul(x, <<101, 100>>))
    ELSE IF QLe(<<181, 200>>, x) /\ QLt(x, <<19, 20>>)
    THEN QMin(<<24, 25>>, QMul(x, <<26, 25>>))
    ELSE IF QLe(<<87, 100>>, x) /\ QLt(x, <<9, 10>>)
    THEN QMin(<<181, 200>>, QMul(x, <<41, 40>>))
    ELSE x

\* C6: after the length penalty a composite x in [0.87,0.90) becomes
\* min(0.905, 1.025 x), x in [0.905,0.95) becomes min(0.96, 1.04 x), x in
\* [0.943,0.95) becomes min(0.96, 1.01 x), the last applicable band winning,
\* and any other x is returned unchanged.
C6_BoostBands ==
    Composed => confidence = C6_ClaimedBoost(PreBoostScore(scores, components1, components2))

\* No side is missing exactly one of first / last.
FullNameCase ==
    /\ (components1.first = <<>>) <=> (components1.last = <<>>)
    /\ (components2.first = <<>>) <=> (components2.last = <<>>)

\* C7: in the full-name case the weights first / last / middle / phonetic are
\* 0.25 / 0.25 / 0.10 / 0.40 if and only if phonetic > 0.94 or (first_name < 0.7
\* and last_name < 0.7 and phonetic > 0.7), and 0.35 / 0.35 / 0.15 / 0.15 in
\* every other case.
C7_FullNameWeights ==
    LET shifted ==
            \/ QLt(<<47, 50>>, scores.phonetic)
            \/ /\ QLt(scores.first_name, <<7, 10>>)
               /\ QLt(scores.last_name, <<7, 10>>)
               /\ QLt(<<7, 10>>, scores.phonetic)
        w == IF shifted
             THEN [first_name |-> <<1, 4>>, last_name |-> <<1, 4>>,
                   middle_name |-> <<1, 10>>, phonetic |-> <<2, 5>>]
             ELSE [first_name |-> <<7, 20>>, last_name |-> <<7, 20>>,
                   middle_name |-> <<3, 20>>, phonetic |-> <<3, 20>>]
    IN (Composed /\ FullNameCase) =>
           confidence = ThresholdBoost(PreBoostWith(scores, w))

\* Two full names, phonetic above 0.94 with a first name of at least 0.7: only
\* the first disjunct shifts the weights, and the shift changes the result.
C7_Witness ==
    /\ Composed
    /\ components1.first # <<>> /\ components1.last # <<>>
    /\ components2.first # <<>> /\ components2.last # <<>>
    /\ scores.phonetic = <<19, 20>>
    /\ scores.first_name = One
    /\ scores.last_name = <<1, 2>>
    /\ confidence # ThresholdBoost(PreBoostWith(scores, weights.standard))

\* The single-token weights as C8 states them.
C8_ClaimedWeights ==
    IF components1.first # <<>> /\ components2.first # <<>>
    THEN [first_name |-> <<3, 5>>, last_name |-> Zero,
          middle_name |-> Zero, phonetic |-> <<2, 5>>]
    ELSE IF components1.last # <<>> /\ components2.last # <<>>
    THEN [first_name |-> Zero, last_name |-> <<3, 5>>,
          middle_name |-> Zero, phonetic |-> <<2, 5>>]
    ELSE [first_name |-> <<3, 10>>, last_name |-> <<3, 10>>,
          middle_name |-> Zero, phonetic |-> <<2, 5>>]

\* C8 as stated: whenever at least one of first1, last1, first2, last2 is
\* empty, the weights are 0.6 first + 0.4 phonetic when both sides have a
\* first name, else 0.6 last + 0.4 phonetic when both have a last name, else
\* 0.3 first + 0.3 last + 0.4 phonetic, the middle-name weight being 0.
C8_AnyEmptyPart ==
    (/\ Composed
     /\ <<>> \in {components1.first, components1.last,
                  components2.first, components2.last})
        => confidence = ThresholdBoost(PreBoostWith(scores, C8_ClaimedWeights))

\* C8 as amended: whenever at least one side has exactly one of first and last
\* (the other of the two being empty), the weights are the single-token
\* weights above; a side with both empty does not by itself select them.
C8_SingleToken ==
    (Composed /\ ~FullNameCase)
        => confidence = ThresholdBoost(PreBoostWith(scores, C8_ClaimedWeights))

\* A first-name-only side against a full name, where the middle-name score
\* would have changed the result under the four-way weights.
C8_Witness ==
    /\ Composed
    /\ components1.first # <<>> /\ components1.last = <<>>
    /\ components2.first # <<>> /\ components2.last # <<>>
    /\ scores.middle_name = One
    /\ scores.first_name = One
    /\ confidence # ThresholdBoost(PreBoostWith(scores, weights.standard))
    /\ confidence # ThresholdBoost(PreBoostWith(scores, weights.high_phonetic))

\* The penalty multiplier as C9 states it.
C9_ClaimedPenalty(first, last) ==
    IF QLt(first, <<3, 10>>) /\ QLt(last, <<3, 10>>) THEN <<2, 5>>
    ELSE IF QLt(first, <<1, 2>>) /\ QLt(last, <<1, 2>>) THEN <<3, 5>>
    ELSE IF QLt(first, <<7, 10>>) /\ QLt(last, <<7, 10>>) THEN <<3, 4>>
    ELSE <<1, 1>>

\* C9: the capped weighted sum is multiplied once, first match winning, by 0.40
\* if first and last are both < 0.30, else 0.60 if both < 0.50, else 0.75 if
\* both < 0.70, else 1; the multiplier comes after the clamp to the cap and
\* before the length penalty and the boost bands.
C9_PenaltyOnce ==
    LET w == SelectWeights(scores.first_name, scores.last_name, scores.phonetic,
                           components1, components2)
        capped == QMin(WeightedSum(scores, w), scores.max_possible_score)
        penalised == QMul(capped, C9_ClaimedPenalty(scores.first_name, scores.last_name))
    IN Composed => confidence = ThresholdBoost(QMul(penalised, scores.length_penalty))

\* Both scores below 0.30, so that all three conditions hold, on a sum that the
\* cap has clamped and with a length penalty below 1.
C9_Witness ==
    /\ Composed
    /\ QLt(scores.first_name, <<3, 10>>)
    /\ QLt(scores.last_name, <<3, 10>>)
    /\ scores.phonetic = One
    /\ scores.length_penalty = <<97, 100>>
    /\ confidence = <<97, 625>>

\* The first word of a raw string is one of the honorific abbreviations.
C10_StartsWithHonorific(name) ==
    LET words == Split(Lower(name))
    IN words # <<>> /\ RemoveDots(words[1]) \in honorific_prefixes

\* C10: the length_penalty score of the raw strings name1, name2 is 1.0 unless
\* |len(name1) - len(name2)| > 3 and neither string's first word is a common
\* honorific abbreviation, in which case it is 1 - (len_diff / max_len) * 0.03;
\* a difference of exactly 3 gives 1.0 and the score is always in [0.97, 1.0].
C10_LengthPenalty ==
    LET len_diff == Abs(Len(name1) - Len(name2))
        max_len == Max2(Len(name1), Len(name2))
        penalised == /\ len_diff > 3
                     /\ ~C10_StartsWithHonorific(name1)
                     /\ ~C10_StartsWithHonorific(name2)
    IN Advanced =>
        /\ scores.length_penalty =
              IF penalised THEN QSub(<<1, 1>>, QMul(Q(len_diff, max_len), <<3, 100>>))
              ELSE <<1, 1>>
        /\ QLe(<<97, 100>>, scores.length_penalty)
        /\ QLe(scores.length_penalty, <<1, 1>>)

\* Two non-empty names five characters apart, neither led by an honorific.
C10_Witness ==
    /\ Advanced
    /\ Len(name1) = 2
    /\ Len(name2) = 7
    /\ ~C10_StartsWithHonorific(name2)
    /\ scores.length_penalty = <<137, 140>>

\* C11: on the exact, the hyphen-normalized and the advanced path the returned
\* confidence is the returned scores["composite"]: 1.0, 0.95, and on the
\* advanced path the composite after cap, penalty, length penalty and boost
\* band, as recomputed from the reported component scores.
C11_ConfidenceIsComposite ==
    Matched =>
        /\ confidence = scores.composite
        /\ method = "exact_match" => confidence = <<1, 1>>
        /\ method = "hyphen_normalized_match" => confidence = <<19, 20>>
        /\ method = "advanced_multilingual" =>
              confidence = ThresholdBoost(PreBoostScore(scores, components1, components2))

\* An advanced match whose composite was raised by a boost band.
C11_Witness ==
    /\ Advanced
    /\ QLt(PreBoostScore(scores, components1, components2), confidence)
    /\ confidence = scores.composite

\* The component names every result carries, and the seven of C12.
C12_SixNames ==
    {"first_name", "last_name", "middle_name", "phonetic", "length_penalty",
     "composite"}

C12_SevenNames == C12_SixNames \cup {"whole_name"}

\* C12 as stated: every MatchResult, whatever its method tag, has a scores
\* mapping with first_name, last_name, middle_name, phonetic, whole_name,
\* length_penalty and composite.
C12_SevenComponents == Matched => C12_SevenNames \subseteq DOMAIN scores

\* C12 as amended: every MatchResult has first_name, last_name, middle_name,
\* phonetic, length_penalty and composite; whole_name is reported by the
\* advanced path only, the exact and the hyphen path report exactly the six.
C12_SixComponents ==
    Matched =>
        /\ C12_SixNames \subseteq DOMAIN scores
        /\ method \in {"exact_match", "hyphen_normalized_match"} =>
              DOMAIN scores = C12_SixNames
        /\ method = "advanced_multilingual" => C12_SevenNames \subseteq DOMAIN scores

\* A hyphen-normalized result between two differently tagged names.
C12_Witness ==
    /\ Matched
    /\ method = "hyphen_normalized_match"
    /\ language1 # language2
    /\ "whole_name" \notin DOMAIN scores

\* C13: no call of match_names ends with an exception; when the script-specific
\* whole-name comparator fails, the call still returns a MatchResult whose
\* whole_name is the value of the generic statistical comparator.
C13_CaughtLocally ==
    /\ pc # "raised"
    /\ (Advanced /\ answers.whole_raises) =>
           scores.whole_name =
               calculate_statistical_similarity(FullName(components1),
                                                FullName(components2), answers.whole)

\* C16: with symmetric leaf comparators the call with the two sides swapped
\* (names and language tags) returns the same confidence, and ends with an
\* exception exactly when the call itself does.
C16_Symmetric ==
    /\ Matched =>
           confidence = match_names(name2, name1, language2, language1, answers, EmptyCache).confidence
    /\ pc = "raised" =>
           "exception" \in DOMAIN match_names(name2, name1, language2, language1, answers, EmptyCache)

\* An advanced match of two names of different length, word count and tag.
C16_Witness ==
    /\ Advanced
    /\ language1 = RUSSIAN /\ language2 = FRENCH
    /\ Len(name1) < Len(name2)
    /\ components1.middle = <<>> /\ components2.middle # <<>>
    /\ QLt(Zero, confidence)

\* C17: for German, French, Italian, Spanish and Portuguese and a cleaned name
\* of three or more words w0..w(n-1) with a particle after position 0, let i
\* be the first such position: last is w(i)..w(n-1) joined by spaces; first is
\* w0 and middle empty when i = 1; first is w0 and middle w1 when i = 2; first
\* is w0..w(i-2) and middle w(i-1) when i >= 3; first, middle and last together
\* hold every word once in the original order.  (Positions here are 1-based.)
C17_ParticleSplit ==
    LET words == Split(cleaned_name1)
        n == Len(words)
        at == {j \in 2..n : Lower(words[j]) \in Particles(language1)}
        i == CHOOSE j \in at : \A k \in at : j <= k
    IN (/\ Segmented
        /\ language1 \in {GERMAN, FRENCH, ITALIAN, SPANISH, PORTUGUESE}
        /\ n >= 3
        /\ at # {}) =>
           /\ components1.last = Join(SubSeq(words, i, n))
           /\ i = 2 => components1.first = words[1] /\ components1.middle = <<>>
           /\ i = 3 => components1.first = words[1] /\ components1.middle = words[2]
           /\ i >= 4 => /\ components1.first = Join(SubSeq(words, 1, i - 2))
                        /\ components1.middle = words[i - 1]
           /\ Split(components1.first) \o Split(components1.middle)
                  \o Split(components1.last) = words

\* A four-word name that starts with a particle and has two later ones.
C17_Witness ==
    /\ Segmented
    /\ language1 = FRENCH
    /\ Len(Split(cleaned_name1)) = 4
    /\ Split(cleaned_name1)[1] = <<"d", "e">>
    /\ components1.middle = <<"j", "o">>
    /\ components1.last = <<"d", "a", " ", "d", "e">>

\* The honorifics _strip_honorifics looks for, as the word is compared.
C18_IsHonorific(word, set) == RemoveDots(Lower(word)) \in set

\* C18: _strip_honorifics returns a name of at most 2 words unchanged; from a
\* longer name it removes only leading honorific words, language-specific
\* ones before ones of the common list, the words kept are a suffix of the
\* original words, and at least 2 words are kept.
C18_KeepsTwoWords ==
    LET words == Split(name1)
        kept == Split(cleaned_name1)
        dropped == Len(words) - Len(kept)
        own == load_honorifics(language1)
    IN Segmented =>
        /\ Len(words) <= 2 => cleaned_name1 = name1
        /\ Len(words) > 2 =>
              /\ Len(kept) >= 2
              /\ dropped >= 0
              /\ kept = SubSeq(words, dropped + 1, Len(words))
              /\ \A j \in 1..dropped :
                    C18_IsHonorific(words[j], own \cup {<<"m", "r">>, <<"d", "r">>})
              /\ \A j \in 1..dropped : \A k \in (j + 1)..dropped :
                    ~C18_IsHonorific(words[j], own) =>
                        C18_IsHonorific(words[k], {<<"m", "r">>, <<"d", "r">>})

\* Four words of which the first two are honorifics: a Portuguese one, then
\* one of the common list; both are removed and two words are left.
C18_Witness ==
    /\ Segmented
    /\ language1 = PORTUGUESE
    /\ Split(name1) = <<<<"d", "o", "m">>, <<"m", "r", ".">>,
                        <<"d", "o", "m">>, <<"j", "o">>>>
    /\ cleaned_name1 = <<"d", "o", "m", " ", "j", "o">>

\* C19: a name of exactly 3 words whose first word (lowercased, periods
\* removed) is an honorific of its language and whose second word is in the
\* union of all languages' particle sets is returned unchanged by
\* _strip_honorifics; e.g. Portuguese "Dom da Silva" keeps its title.
C19_ThreeWordGuard ==
    LET words == Split(name1)
    IN (/\ Segmented
        /\ Len(words) = 3
        /\ RemoveDots(Lower(words[1])) \in load_honorifics(language1)
        /\ Lower(words[2]) \in UNION {Particles(l) : l \in Language}) =>
           cleaned_name1 = name1

\* C20: under MANDARIN a name with Han characters c0..c(k-1), k >= 2, is
\* segmented from those characters alone: k = 2 gives last c0 and first c1;
\* k = 3 gives last c0 and first c1c2 if c0 is a known single-character
\* surname, else last c0c1 and first c2; k = 4 gives last c0c1 and first c2c3;
\* k >= 5 gives last c0c1 and first c2..c(k-1); middle is empty.
C20_HanSegmentation ==
    LET han == SelectSeq(name1, is_chinese_character)
        k == Len(han)
    IN (Segmented /\ language1 = MANDARIN /\ k >= 2) =>
        /\ components1.middle = <<>>
        /\ k = 2 => components1.last = <<han[1]>> /\ components1.first = <<han[2]>>
        /\ (k = 3 /\ han[1] = "W") =>
              components1.last = <<han[1]>> /\ components1.first = SubSeq(han, 2, 3)
        /\ (k = 3 /\ han[1] # "W") =>
              components1.last = SubSeq(han, 1, 2) /\ components1.first = <<han[3]>>
        /\ k >= 4 => /\ components1.last = SubSeq(han, 1, 2)
                     /\ components1.first = SubSeq(han, 3, k)

\* Three Han characters after a common honorific, the first one not a known
\* surname and written inside a word with a Latin letter.
C20_Witness ==
    /\ Segmented
    /\ language1 = MANDARIN
    /\ Split(name1) = <<<<"m", "r", ".">>, <<"x", "M">>, <<"W">>, <<"W">>>>
    /\ components1.last = <<"M", "W">>
    /\ components1.first = <<"W">>

\* C14: the memo caches never change a returned value: every result of
\* match_names in a batch is the result the same call, with the same answers
\* of the libraries, has in a process whose caches are empty.
C14_HistoryIndependent ==
    Matched =>
        LET fresh == match_names(name1, name2, language1, language2, answers, EmptyCache)
        IN /\ components1 = fresh.name1
           /\ components2 = fresh.name2
           /\ scores = fresh.scores
           /\ confidence = fresh.confidence
           /\ method = fresh.method

\* C14, restricted to calls with language tags.
C14_TaggedHistoryIndependent ==
    (language1 # None /\ language2 # None) => C14_HistoryIndependent

\* Every table a caller received and every stored table is the complete
\* table of a sequential load.
C15_CompleteTables ==
    /\ \A t \in 1..MaxThreads :
          thread[t].pc = "returned" =>
              thread[t].table =
                  SequentialLoad(thread[t].function, thread[t].language, data_dir)
    /\ \A function \in Loaders : \A language \in DOMAIN cache[function] :
          cache[function][language] = SequentialLoad(function, language, data_dir)

\* A stored table stays stored and unchanged, and the body of a loader runs
\* again for the same arguments only while an earlier run for them has not
\* returned yet.
C15_StoredOnce ==
    /\ \A function \in Loaders : \A language \in DOMAIN cache[function] :
          /\ language \in DOMAIN cache'[function]
          /\ cache'[function][language] = cache[function][language]
    /\ \A function \in Loaders : \A language \in DOMAIN builds[function] :
          (builds'[function][language] > builds[function][language]
             /\ builds[function][language] >= 1)
          => \E u \in 1..MaxThreads : /\ thread[u].pc = "loading"
                                /\ thread[u].function = function
                                /\ thread[u].language = language

\* C15: callers that request a language's honorific or diminutive table,
\* also several at the same time for the first time, all receive the complete
\* table a single sequential load builds; a stored table is never modified,
\* and calls made one after the other build a table at most once.
C15_MemoizedTables == [](C15_CompleteTables) /\ [][C15_StoredOnce]_vars

\* Two threads have both built the diminutive table of the sample file for
\* the same first request and both hold the complete table.
C15_Witness ==
    /\ data_dir = SampleDir
    /\ builds["load_diminutives"][ENGLISH] = 2
    /\ \A t \in 1..MaxThreads :
          /\ thread[t].pc = "returned"
          /\ thread[t].function = "load_diminutives"
          /\ thread[t].language = ENGLISH
          /\ thread[t].table = SequentialLoad("load_diminutives", ENGLISH, SampleDir)
          /\ {thread[t].table[Word.jo][k] : k \in 1..Len(thread[t].table[Word.jo])}
                = {Word.ed, Word.ax}

(***************************************************************************)
(* Diminutive tables                                                       *)
(***************************************************************************)
\* The tokens looked up: names of the files, one in upper case, one absent.
Tokens == {Word.jo, Word.ed, Word.ax, <<"J", "o">>, Word.mo}

\* "form in expand_diminutives(token, language)"
Expands(token, form, language) ==
    \E k \in 1..Len(expand_diminutives(token, language, cache)) :
        expand_diminutives(token, language, cache)[k] = form

\* load_diminutives(language) has returned and its table is stored.
Loaded(language) == language \in DOMAIN cache.load_diminutives

\* C21 as stated: once a diminutive table is loaded, for all tokens a and b,
\* b is in the expansion of a if and only if a is in the expansion of b.
C21_Symmetric ==
    \A language \in {ENGLISH, FRENCH} :
        Loaded(language) =>
            \A a \in Tokens, b \in Tokens :
                Expands(a, b, language) <=> Expands(b, a, language)

\* C21, amended: once a diminutive table is loaded, for all tokens a and b,
\* the lower case of b is in the expansion of a if and only if the lower case
\* of a is in the expansion of b, whatever the order of the names in the rows.
C21_SymmetricInLowerCase ==
    \A language \in {ENGLISH, FRENCH} :
        Loaded(language) =>
            \A a \in Tokens, b \in Tokens :
                Expands(a, Lower(b), language) <=> Expands(b, Lower(a), language)

\* The table of a file whose only row is "ed,jo" is loaded: "Jo" expands to
\* "ed" and "ed" expands to "jo", the name listed after it.
C21_Witness ==
    /\ Loaded(ENGLISH)
    /\ FileLines(data_dir, "load_diminutives", ENGLISH) = <<Word.ed \o <<",">> \o Word.jo>>
    /\ Expands(<<"J", "o">>, Word.ed, ENGLISH)
    /\ Expands(Word.ed, Word.jo, ENGLISH)
    /\ ~Expands(Word.ed, <<"J", "o">>, ENGLISH)

\* C22: once a diminutive table is loaded, the list expand_diminutives
\* returns for a token holds no form twice.
C22_NoDuplicates ==
    \A language \in {ENGLISH, FRENCH} :
        Loaded(language) =>
            \A a \in Tokens :
                LET variants == expand_diminutives(a, language, cache)
                IN \A i \in 1..Len(variants), j \in 1..Len(variants) :
                       variants[i] = variants[j] => i = j

(***************************************************************************)
(* Fan-out of the first-name comparison over the languages                 *)
(***************************************************************************)
\* The forms of expand_diminutives(name, language) over a set of languages.
FormsOver(name, languages) ==
    UNION {{expand_diminutives(name, l, cache)[k] :
                k \in 1..Len(expand_diminutives(name, l, cache))} : l \in languages}

\* The variant set C23 states for a side: every language when the tags
\* differ, the side's own language when they are equal.
C23_Variants(name, lang, other_lang) ==
    FormsOver(name, IF lang # other_lang THEN Language ELSE {lang})

\* The first-name score of two names with a common variant below the direct
\* threshold: min(exact_match_confidence, 1.0 * diminutive_boost_multiplier).
CommonVariantScore ==
    QMin(thresholds.exact_match_confidence, QMul(One, thresholds.diminutive_boost_multiplier))

\* The first-name comparator of a returned call went through the variants.
FannedOut ==
    /\ Advanced
    /\ ExpandsDiminutives(components1.first, components2.first,
                          components1.language, components2.language, answers.first)

\* C23: when the first-name comparator has expanded the two first names, the
\* variant set of each side is the union of the expansions over all nine
\* languages if the two language tags differ and the expansion in the one
\* language if they are equal, with no expansion of the forms found; the
\* first-name score is that of a common variant exactly when these two sets
\* share a form; and the tables loaded are those of the languages visited.
C23_FanOut ==
    FannedOut =>
        /\ AllVariants(components1.first, components1.language, components2.language, cache)
             = C23_Variants(components1.first, components1.language, components2.language)
        /\ AllVariants(components2.first, components2.language, components1.language, cache)
             = C23_Variants(components2.first, components2.language, components1.language)
        /\ (scores.first_name = CommonVariantScore)
             <=> (C23_Variants(components1.first, components1.language, components2.language)
                    \cap C23_Variants(components2.first, components2.language,
                                      components1.language) # {})
        /\ DOMAIN cache.load_diminutives
             = (IF components1.language # components2.language THEN Language
                ELSE {components1.language})

\* "jo" tagged English is matched with "ax" tagged German: the French table
\* alone makes them variants, and "mo", reachable from "jo" only through "ed"
\* (English row, then French row), is no variant of "jo".
C23_Witness ==
    /\ FannedOut
    /\ data_dir = VariantDir
    /\ name1 = Word.jo /\ language1 = ENGLISH
    /\ name2 = Word.ax /\ language2 = GERMAN
    /\ AllVariants(name1, ENGLISH, GERMAN, cache) = {Word.jo, Word.ed, Word.ax}
    /\ Word.mo \in FormsOver(Word.ed, Language)
    /\ scores.first_name = CommonVariantScore

(***************************************************************************)
(* Empty components                                                        *)
(***************************************************************************)
\* A component is empty on at least one side.
EmptyOnASide(part) == components1[part] = <<>> \/ components2[part] = <<>>

Distance(algorithm) ==
    /\ pc = "compared"
    /\ Head(pending).op = "calculate_distance"
    /\ Head(pending).algorithm = algorithm

MiddleNamesCompared ==
    pc = "compared" /\ Head(pending).op = "_compare_middle_names"

\* One side is a single character and the other side is longer.
InitialAndName(initial, other) == Len(initial) = 1 /\ Len(other) > 1

\* C26: _compare_middle_names returns 0.5 when both middle names are empty
\* and 0.0 when exactly one is; when one side is a single character and the
\* other is longer, 1.0 if the character is the other's first letter up to
\* case and 0.0 otherwise; in every other case calculate_distance of the two;
\* and the same value for the arguments swapped.
C26_MiddleNames ==
    MiddleNamesCompared =>
        /\ confidence =
              (IF name1 = <<>> /\ name2 = <<>> THEN <<1, 2>>
               ELSE IF name1 = <<>> \/ name2 = <<>> THEN Zero
               ELSE IF InitialAndName(name1, name2)
               THEN IF Lower(name1)[1] = Lower(name2)[1] THEN One ELSE Zero
               ELSE IF InitialAndName(name2, name1)
               THEN IF Lower(name2)[1] = Lower(name1)[1] THEN One ELSE Zero
               ELSE calculate_distance(name1, name2, answers.middle))
        /\ confidence = _compare_middle_names(name2, name1, answers.middle)

\* "Ed" is compared with the initial "e": the initial on the second side
\* matches the first letter in the other case, the score is 1.0.
C26_Witness ==
    /\ MiddleNamesCompared
    /\ name1 = <<"E", "d">>
    /\ name2 = Word.e
    /\ confidence = One

\* The forms of the rows of a language's diminutives file that list a form:
\* the rows with a comma, split at the commas, the parts stripped and lowered.
RowMates(form, language) ==
    LET lines == FileLines(data_dir, "load_diminutives", language)
        Parts(line) == {Lower(Strip(SplitCommaFrom(Strip(line), <<>>)[k])) :
                            k \in 1..Len(SplitCommaFrom(Strip(line), <<>>))}
        rows == {Parts(lines[i]) :
                    i \in {k \in 1..Len(lines) : \E c \in 1..Len(lines[k]) : lines[k][c] = ","}}
    IN UNION {row \in rows : form \in row}

\* C27: once a diminutive table is loaded, expand_diminutives returns the
\* lowercased token followed by exactly the forms that share a row of the
\* file with it, the token itself excepted; a token of no row expands to
\* just itself, and a form reached only through a chain of rows is left out.
C27_SingleRead ==
    \A language \in {ENGLISH, FRENCH} :
        Loaded(language) =>
            \A a \in Tokens :
                LET variants == expand_diminutives(a, language, cache)
                IN /\ variants[1] = Lower(a)
                   /\ {variants[k] : k \in 2..Len(variants)}
                        = RowMates(Lower(a), language) \ {Lower(a)}
                   /\ RowMates(Lower(a), language) = {} => variants = <<Lower(a)>>

\* The table of the file "jo,ed", "ed,ax" is loaded: "jo" expands to "ed",
\* "ed" expands to "ax", and "jo" does not expand to "ax".
C27_Witness ==
    /\ Loaded(ENGLISH)
    /\ FileLines(data_dir, "load_diminutives", ENGLISH)
         = <<Word.jo \o <<",">> \o Word.ed, Word.ed \o <<",">> \o Word.ax>>
    /\ expand_diminutives(Word.jo, ENGLISH, cache) = <<Word.jo, Word.ed>>
    /\ Expands(Word.ed, Word.ax, ENGLISH)
    /\ ~Expands(Word.jo, Word.ax, ENGLISH)
    /\ expand_diminutives(Word.mo, ENGLISH, cache) = <<Word.mo>>

(***************************************************************************)
(* Surnames                                                                *)
(***************************************************************************)
\* The surname of a side as _compare_surnames compares it: particles
\* stripped, lower case (no modelled character carries an accent).
CleanSurname(c) == Lower(_normalize_surname(c.last, c.language))

\* Both sides have a surname and no side carries a script language tag.
PlainSurnames ==
    /\ Advanced
    /\ components1.last # <<>>
    /\ components2.last # <<>>
    /\ ~ScriptSpecific(components1.language, components2.language)

Boosted == {<<Q(k, 200), ThresholdBoost(Q(k, 200))>> : k \in 170..200}

\* C29 as stated: the boost step never lowers a score and is monotone: a
\* call whose composite before the boosts is x returns at least x, and for
\* every other call, with composite y before the boosts, x <= y implies
\* boost(x) <= boost(y) and y <= x implies boost(y) <= boost(x).
C29_MonotoneBoost ==
    Composed =>
        LET x == PreBoostScore(scores, components1, components2)
        IN /\ QLe(x, confidence)
           /\ \A y \in Boosted :
                 /\ QLe(x, y[1]) => QLe(confidence, y[2])
                 /\ QLe(y[1], x) => QLe(y[2], confidence)

\* y lies between the upper end of a band and the target of that band.
AboveBand(y) ==
    \/ QLe(<<9, 10>>, y) /\ QLt(y, <<181, 200>>)
    \/ QLe(<<19, 20>>, y) /\ QLt(y, <<24, 25>>)

\* C29, amended: the boost step never lowers a score, and it is monotone
\* except across the upper end of a band: for composites x <= y before the
\* boosts, boost(x) <= boost(y) unless y lies in [0.90, 0.905) or in
\* [0.95, 0.96), the gap between the end of a band and its target.
C29_MonotoneBelowTargets ==
    Composed =>
        LET x == PreBoostScore(scores, components1, components2)
        IN /\ QLe(x, confidence)
           /\ \A y \in Boosted :
                 /\ (QLe(x, y[1]) /\ ~AboveBand(y[1])) => QLe(confidence, y[2])
                 /\ (QLe(y[1], x) /\ ~AboveBand(x)) => QLe(y[2], confidence)

\* A call whose composite before the boosts is 0.88 returns 0.902, more than
\* the 0.90 of another call whose composite before the boosts is 0.90, and
\* less than the 0.9412 of a call whose composite before the boosts is 0.905.
C29_Witness ==
    /\ Composed
    /\ PreBoostScore(scores, components1, components2) = <<22, 25>>
    /\ confidence = <<451, 500>>
    /\ <<(<<9, 10>>), (<<9, 10>>)>> \in Boosted
    /\ <<(<<181, 200>>), (<<2353, 2500>>)>> \in Boosted

(***************************************************************************)
(* Hyphen and space normalization                                          *)
(***************************************************************************)
\* The tokens of a string: its words in lower case, hyphens separating words
\* as spaces do.
TokensOf(s) == Split(HyphensToSpaces(Lower(s)))

\* C30: the normalization of calculate_distance (lower case, trim, hyphens
\* to spaces, one pass replacing two spaces by one) is idempotent, and two
\* strings with the same tokens, whatever the hyphens and spaces between
\* them, normalize to the same string, so that their distance is 1.0.
C30_Idempotent ==
    (pc = "compared" /\ Head(pending).op = "calculate_distance") =>
        /\ NormalizeHyphens(NormalizeHyphens(name1)) = NormalizeHyphens(name1)
        /\ NormalizeHyphens(NormalizeHyphens(name2)) = NormalizeHyphens(name2)
        /\ TokensOf(name1) = TokensOf(name2) =>
               /\ NormalizeHyphens(name1) = NormalizeHyphens(name2)
               /\ confidence = One

====
